---- MODULE Spec2Model ----
(***************************************************************************)
(* Monopoly engine: GameSession / TurnManager (game.py), the board and the *)
(* cells (models.py), and the financial aggregate Bank / TradeManager /    *)
(* Auction (finance.py).  Positions are list indices of Board.cells        *)
(* (0-based, as in the source); sequences are 1-based, so the cell at      *)
(* position i is Cells[i + 1].                                             *)
(***************************************************************************)
EXTENDS Integers, Sequences, FiniteSets, TLC

\* ------------------------------------------------------------------ data

\* "no object": a property without owner, an auction without property.
None == "none"

\* The rosters a session is started with (game_config["players"]).
Rosters == { <<"p1">>, <<"p1", "p2">> }

\* Board.cells in the order GameSession._create_board adds them.
Cells ==
  << [type |-> "start",      id |-> "start"],
     [type |-> "property",   id |-> "prop1"],
     [type |-> "property",   id |-> "prop2"],
     [type |-> "tax",        id |-> "tax1"],
     [type |-> "property",   id |-> "prop3"],
     [type |-> "property",   id |-> "prop4"],
     [type |-> "property",   id |-> "prop5"],
     [type |-> "jail",       id |-> "jail"],
     [type |-> "property",   id |-> "prop6"],
     [type |-> "property",   id |-> "prop7"],
     [type |-> "property",   id |-> "prop8"],
     [type |-> "tax",        id |-> "tax2"],
     [type |-> "property",   id |-> "prop9"],
     [type |-> "go_to_jail", id |-> "go_to_jail"] >>

\* Board.size after the last add_cell.
BoardSize == Len(Cells)

\* The constructor arguments of every PropertyCell of the board.
PropertyData ==
  [ prop1 |-> [price |-> 60,  color_group |-> "brown",     base_rent |-> 2,  house_cost |-> 50],
    prop2 |-> [price |-> 60,  color_group |-> "brown",     base_rent |-> 4,  house_cost |-> 50],
    prop3 |-> [price |-> 100, color_group |-> "lightblue", base_rent |-> 6,  house_cost |-> 50],
    prop4 |-> [price |-> 100, color_group |-> "lightblue", base_rent |-> 6,  house_cost |-> 50],
    prop5 |-> [price |-> 120, color_group |-> "lightblue", base_rent |-> 8,  house_cost |-> 50],
    prop6 |-> [price |-> 140, color_group |-> "pink",      base_rent |-> 10, house_cost |-> 100],
    prop7 |-> [price |-> 140, color_group |-> "pink",      base_rent |-> 10, house_cost |-> 100],
    prop8 |-> [price |-> 160, color_group |-> "pink",      base_rent |-> 12, house_cost |-> 100],
    prop9 |-> [price |-> 200, color_group |-> "orange",    base_rent |-> 16, house_cost |-> 100] ]

PropIds == DOMAIN PropertyData

\* TaxCell.tax_amount of the two tax cells.
TaxAmount == [tax1 |-> 200, tax2 |-> 100]

\* bank.py Bank.__init__: the default reserve.
BankReserve == 1000000

\* Player.__init__: the starting capital.
StartBalance == 1500

\* TurnManager.move_player: the credit for passing Start.
PassStartBonus == 200

\* TurnManager.send_to_jail: the position a jailed player is moved to.
JailTarget == 10

\* TurnManager.send_to_jail: the turns a jailed player waits.
JailTurns == 3

\* TurnManager.end_turn: the doubles that send a player to jail.
DoublesLimit == 3

\* Dice.roll: the faces of one die.
DieFaces == 1..6

\* ---------------------------------------------------------------- bounds

\* Dice rolls and calls from outside a turn (of the bank, the trade manager
\* and the auction) in one session, counted together.
MaxSteps == 3

\* Calls in the runs that call the ledgers alone.
MaxLedgerCalls == 2

\* Offers waiting in TradeManager.pending_offers.
MaxPending == 2

\* Bids placed in one auction.
MaxBids == 2

\* Calls in the runs that call the auction alone.
MaxAuctionCalls == 4

\* Calls in the runs on the properties of two colour groups.
MaxEstateCalls == 4

\* Calls in the runs on the ownership of one property among three players.
MaxTitleCalls == 5

\* Calls in the runs that build on the brown group.
MaxBuildCalls == 6

\* Calls in the runs that counter offers.
MaxCounterCalls == 3

\* Calls in the runs that build up to the hotel.
MaxHotelCalls == 7

\* ----------------------------------------------------------------- state

VARIABLES
  players,              \* GameSession.players: the roster, in turn order
  current_player_index, \* GameSession.current_player_index
  is_paused,            \* GameSession.is_paused
  balance,              \* Player.balance
  position,             \* Player.position
  properties,           \* Player.properties: list of property ids
  in_jail,              \* Player.in_jail
  jail_turns_left,      \* Player.jail_turns_left
  bankrupt,             \* Player.bankrupt
  owner,                \* PropertyCell.owner
  build_level,          \* PropertyCell.build_level
  is_mortgaged,         \* PropertyCell.is_mortgaged
  transaction_log,      \* Bank.transaction_log
  available_money,      \* bank.py Bank.available_money
  transactions,         \* bank.py Bank.transactions
  double_roll_count,    \* TurnManager.double_roll_count
  pending_offers,       \* TradeManager.pending_offers
  auction,              \* TurnManager.auction: the Auction object
  pc,                   \* the statement of play_turn that runs next
  dice_result,          \* play_turn's local dice_result
  cell,                 \* play_turn's local cell: the position landed on
  effect,               \* what apply_cell_effects reported for the cell
  ret,                  \* what the last call from outside a turn returned
  roll_count,           \* history: dice rolls so far
  call_count,           \* history: calls from outside a turn so far
  doubles_run,          \* history: doubles each player rolled in a row
  defaulted             \* history: players that failed a mandatory payment

playerVars == <<balance, position, properties, in_jail, jail_turns_left, bankrupt>>
cellVars == <<owner, build_level, is_mortgaged>>
sessionVars == <<players, current_player_index, is_paused>>
tradeVars == <<pending_offers>>
turnVars == <<double_roll_count, pc, dice_result, cell, effect>>
historyVars == <<roll_count, call_count, doubles_run, defaulted>>

reserveVars == <<available_money, transactions>>

vars == <<sessionVars, playerVars, cellVars, transaction_log, reserveVars,
          tradeVars, auction, turnVars, ret, historyVars>>

\* ------------------------------------------------------------- helpers

Range(s) == { s[i] : i \in DOMAIN s }

\* `x in list`
Contains(s, x) == \E i \in DOMAIN s : s[i] = x

\* list.remove(x): drops the first occurrence.
RECURSIVE RemoveFirst(_, _)
RemoveFirst(s, x) ==
  IF s = <<>> THEN <<>>
  ELSE IF Head(s) = x THEN Tail(s)
  ELSE <<Head(s)>> \o RemoveFirst(Tail(s), x)

Min(S) == CHOOSE x \in S : \A y \in S : x <= y
Max(S) == CHOOSE x \in S : \A y \in S : x >= y

\* ------------------------------------------------- cells (models.py)

\* PropertyCell.rent_table: base rent times 1, 2, 4, 6, 8, 10.
rent_table(prop) ==
  [ l \in 0..5 |-> PropertyData[prop].base_rent * (IF l = 0 THEN 1 ELSE 2 * l) ]

\* Board.get_group_cells: the properties of one colour.
get_group_cells(color) == { c \in PropIds : PropertyData[c].color_group = color }

\* Board.get_cell: cells[index % size].
get_cell(index) == Cells[(index % BoardSize) + 1]

\* Board.next_position that wraps by one subtraction of the size.
next_position_wrapped_once(current, steps) ==
  IF current + steps >= BoardSize THEN current + steps - BoardSize ELSE current + steps

\* Board.next_position.
next_position(current, steps) == (current + steps) % BoardSize

\* The world the bank works on: the balances and property lists of the
\* players, the owner, build level and mortgage flag of the cells, the log.
World ==
  [ balance |-> balance, transaction_log |-> transaction_log, owner |-> owner,
    properties |-> properties, build_level |-> build_level,
    is_mortgaged |-> is_mortgaged ]

SetWorld(w) ==
  /\ balance' = w.balance
  /\ transaction_log' = w.transaction_log
  /\ owner' = w.owner
  /\ properties' = w.properties
  /\ build_level' = w.build_level
  /\ is_mortgaged' = w.is_mortgaged

\* PropertyCell.has_monopoly that looks at the property alone.
has_monopoly_alone(w, prop) == w.owner[prop] # None

\* PropertyCell.has_monopoly.
has_monopoly(w, prop) ==
  /\ w.owner[prop] # None
  /\ \A c \in get_group_cells(PropertyData[prop].color_group) :
        w.owner[c] = w.owner[prop]

\* game_rules.py GameRules.check_monopoly, group being the colour of a
\* PropertyGroup or None.
check_monopoly(w, player, group) ==
  /\ group # None
  /\ \A c \in get_group_cells(group) : w.owner[c] = player

\* PropertyCell.calculate_rent.
calculate_rent(w, prop) ==
  IF w.is_mortgaged[prop] \/ w.owner[prop] = None THEN 0
  ELSE rent_table(prop)[w.build_level[prop]]

\* PropertyCell.can_build without the even-building test.
can_build_uneven(w, prop) == ~w.is_mortgaged[prop] /\ has_monopoly(w, prop)

\* PropertyCell.can_build.
can_build(w, prop) ==
  IF w.is_mortgaged[prop] \/ ~has_monopoly(w, prop) THEN FALSE
  ELSE w.build_level[prop] =
         Min({ w.build_level[c] : c \in get_group_cells(PropertyData[prop].color_group) })

\* PropertyCell.can_sell_building without the even-building test.
can_sell_building_any(w, prop) == w.build_level[prop] > 0

\* PropertyCell.can_sell_building.
can_sell_building(w, prop) ==
  IF w.build_level[prop] = 0 THEN FALSE
  ELSE w.build_level[prop] =
         Max({ w.build_level[c] : c \in get_group_cells(PropertyData[prop].color_group) })

\* PropertyCell.upgrade_building.
upgrade_building(w, prop) ==
  IF w.build_level[prop] < 5 THEN [w EXCEPT !.build_level[prop] = @ + 1] ELSE w

\* PropertyCell.downgrade_building.
downgrade_building(w, prop) ==
  IF w.build_level[prop] > 0 THEN [w EXCEPT !.build_level[prop] = @ - 1] ELSE w

\* Player.add_property: appends unless already in the list.
add_property(w, p, prop) ==
  IF Contains(w.properties[p], prop) THEN w
  ELSE [w EXCEPT !.properties[p] = Append(@, prop)]

\* Player.remove_property.
remove_property(w, p, prop) ==
  [w EXCEPT !.properties[p] = RemoveFirst(@, prop)]

\* Player.adjust_balance.
adjust_balance(w, p, delta) == [w EXCEPT !.balance[p] = @ + delta]

\* -------------------------------------------------- Bank (finance.py)

\* A log that keeps its latest entry only.
log_transaction_latest(w, entry) == [w EXCEPT !.transaction_log = <<entry>>]

\* Bank._log_transaction.
log_transaction(w, entry) == [w EXCEPT !.transaction_log = Append(@, entry)]

\* Bank.debit that takes the amount whatever the balance is.
debit_unchecked(w, p, amount, reason) ==
  [ok |-> TRUE,
   w |-> log_transaction(adjust_balance(w, p, -amount),
           [type |-> "debit", player |-> p, amount |-> amount, reason |-> reason])]

\* Bank.debit that, refusing, takes what the player has.
debit_takes_rest(w, p, amount, reason) ==
  IF w.balance[p] < amount
    THEN [ok |-> FALSE, w |-> adjust_balance(w, p, -w.balance[p])]
  ELSE [ok |-> TRUE,
        w |-> log_transaction(adjust_balance(w, p, -amount),
                [type |-> "debit", player |-> p, amount |-> amount, reason |-> reason])]

\* Bank.debit.
debit(w, p, amount, reason) ==
  IF w.balance[p] < amount THEN [ok |-> FALSE, w |-> w]
  ELSE [ok |-> TRUE,
        w |-> log_transaction(adjust_balance(w, p, -amount),
                [type |-> "debit", player |-> p, amount |-> amount, reason |-> reason])]

\* Bank.credit.
credit(w, p, amount, reason) ==
  log_transaction(adjust_balance(w, p, amount),
    [type |-> "credit", player |-> p, amount |-> amount, reason |-> reason])

\* Bank.transfer that takes the amount and never pays it out.
transfer_no_credit(w, from_player, to_player, amount, reason) ==
  IF w.balance[from_player] < amount THEN [ok |-> FALSE, w |-> w]
  ELSE [ok |-> TRUE,
        w |-> log_transaction(adjust_balance(w, from_player, -amount),
                [type |-> "transfer", from_player |-> from_player,
                 to_player |-> to_player, amount |-> amount, reason |-> reason])]

\* Bank.transfer.
transfer(w, from_player, to_player, amount, reason) ==
  IF w.balance[from_player] < amount THEN [ok |-> FALSE, w |-> w]
  ELSE [ok |-> TRUE,
        w |-> log_transaction(
                adjust_balance(adjust_balance(w, from_player, -amount), to_player, amount),
                [type |-> "transfer", from_player |-> from_player,
                 to_player |-> to_player, amount |-> amount, reason |-> reason])]

\* Bank.purchase_property that sells a property whoever owns it.
purchase_property_resold(w, p, prop) ==
  LET d == debit(w, p, PropertyData[prop].price, <<"Purchase", prop>>)
  IN  IF ~d.ok THEN [ok |-> FALSE, w |-> w]
      ELSE [ok |-> TRUE,
            w |-> add_property([d.w EXCEPT !.owner[prop] = p], p, prop)]

\* Bank.purchase_property.
purchase_property(w, p, prop) ==
  IF w.owner[prop] # None THEN [ok |-> FALSE, w |-> w]
  ELSE LET d == debit(w, p, PropertyData[prop].price, <<"Purchase", prop>>)
       IN  IF ~d.ok THEN [ok |-> FALSE, w |-> w]
           ELSE [ok |-> TRUE,
                 w |-> add_property([d.w EXCEPT !.owner[prop] = p], p, prop)]

\* Bank.pay_rent.
pay_rent(w, payer, own, prop) ==
  LET rent == calculate_rent(w, prop)
  IN  IF rent = 0 THEN [ok |-> TRUE, w |-> w]
      ELSE transfer(w, payer, own, rent, <<"Rent for", prop>>)

\* Bank.mortgage_property without the test of the build level.
mortgage_property_built(w, p, prop) ==
  IF w.owner[prop] # p \/ w.is_mortgaged[prop] THEN [ok |-> FALSE, w |-> w]
  ELSE LET c == credit(w, p, PropertyData[prop].price \div 2, <<"Mortgage", prop>>)
       IN  [ok |-> TRUE, w |-> [c EXCEPT !.is_mortgaged[prop] = TRUE]]

\* Bank.mortgage_property.
mortgage_property(w, p, prop) ==
  IF w.owner[prop] # p \/ w.is_mortgaged[prop] THEN [ok |-> FALSE, w |-> w]
  ELSE IF w.build_level[prop] > 0 THEN [ok |-> FALSE, w |-> w]
  ELSE LET c == credit(w, p, PropertyData[prop].price \div 2, <<"Mortgage", prop>>)
       IN  [ok |-> TRUE, w |-> [c EXCEPT !.is_mortgaged[prop] = TRUE]]

\* Bank.redeem_mortgage that charges what the mortgage paid out.
redeem_mortgage_at_par(w, p, prop) ==
  IF w.owner[prop] # p \/ ~w.is_mortgaged[prop] THEN [ok |-> FALSE, w |-> w]
  ELSE LET d == debit(w, p, PropertyData[prop].price \div 2, <<"Redeem", prop>>)
       IN  IF ~d.ok THEN [ok |-> FALSE, w |-> w]
           ELSE [ok |-> TRUE, w |-> [d.w EXCEPT !.is_mortgaged[prop] = FALSE]]

\* Bank.redeem_mortgage: int(price * 0.55).
redeem_mortgage(w, p, prop) ==
  IF w.owner[prop] # p \/ ~w.is_mortgaged[prop] THEN [ok |-> FALSE, w |-> w]
  ELSE LET d == debit(w, p, (PropertyData[prop].price * 55) \div 100, <<"Redeem", prop>>)
       IN  IF ~d.ok THEN [ok |-> FALSE, w |-> w]
           ELSE [ok |-> TRUE, w |-> [d.w EXCEPT !.is_mortgaged[prop] = FALSE]]

\* Bank.pay_build_cost: hotel_cost equals house_cost (PropertyCell.__init__).
pay_build_cost(w, p, prop) ==
  IF ~can_build(w, prop) THEN [ok |-> FALSE, w |-> w]
  ELSE LET d == debit(w, p, PropertyData[prop].house_cost, <<"Build on", prop>>)
       IN  IF ~d.ok THEN [ok |-> FALSE, w |-> w]
           ELSE [ok |-> TRUE, w |-> upgrade_building(d.w, prop)]

\* Bank.refund_building.
refund_building(w, p, prop) ==
  IF ~can_sell_building(w, prop) THEN w
  ELSE downgrade_building(
         credit(w, p, PropertyData[prop].house_cost \div 2, <<"Sell building on", prop>>),
         prop)

\* The property loop of Bank.settle_trade: every prop of the list goes
\* from giver to taker.
RECURSIVE exchange_properties(_, _, _, _)
exchange_properties(w, props, giver, taker) ==
  IF props = <<>> THEN w
  ELSE exchange_properties(
         add_property(
           remove_property([w EXCEPT !.owner[Head(props)] = taker], giver, Head(props)),
           taker, Head(props)),
         Tail(props), giver, taker)

\* Bank.settle_trade that tests each money leg only when it pays it, and
\* gives up at the first leg that cannot be paid.
settle_trade_leg_by_leg(w, o) ==
  LET t1 == IF o.money_from > 0
              THEN transfer(w, o.from_player, o.to_player, o.money_from, <<"Trade">>)
              ELSE [ok |-> TRUE, w |-> w]
      t2 == IF o.money_to > 0
              THEN transfer(t1.w, o.to_player, o.from_player, o.money_to, <<"Trade">>)
              ELSE [ok |-> TRUE, w |-> t1.w]
      w3 == exchange_properties(t2.w, o.properties_from, o.from_player, o.to_player)
      w4 == exchange_properties(w3, o.properties_to, o.to_player, o.from_player)
  IN  IF ~t1.ok THEN [ok |-> FALSE, w |-> w]
      ELSE IF ~t2.ok THEN [ok |-> FALSE, w |-> t1.w]
      ELSE [ok |-> TRUE, w |-> w4]

\* Bank.settle_trade.
settle_trade(w, o) ==
  IF o.money_from > 0 /\ w.balance[o.from_player] < o.money_from
    THEN [ok |-> FALSE, w |-> w]
  ELSE IF o.money_to > 0 /\ w.balance[o.to_player] < o.money_to
    THEN [ok |-> FALSE, w |-> w]
  ELSE
    LET w1 == IF o.money_from > 0
                THEN transfer(w, o.from_player, o.to_player, o.money_from, <<"Trade">>).w
                ELSE w
        w2 == IF o.money_to > 0
                THEN transfer(w1, o.to_player, o.from_player, o.money_to, <<"Trade">>).w
                ELSE w1
        w3 == exchange_properties(w2, o.properties_from, o.from_player, o.to_player)
        w4 == exchange_properties(w3, o.properties_to, o.to_player, o.from_player)
    IN  [ok |-> TRUE, w |-> w4]

\* Bank.resolve_auction: result is Auction.close's return value.  close
\* returns None for an auction without bids, and `"winner" not in None`
\* raises TypeError before anything is changed.
resolve_auction(w, result) ==
  IF result.is_none THEN [raised |-> TRUE, w |-> w]
  ELSE LET d == debit(w, result.winner, result.amount, <<"Auction", result.property>>)
       IN  IF d.ok
             THEN [raised |-> FALSE,
                   w |-> add_property([d.w EXCEPT !.owner[result.property] = result.winner],
                                      result.winner, result.property)]
             ELSE [raised |-> FALSE, w |-> d.w]

\* ------------------------------------------- TurnManager (game.py)

\* GameSession.get_current_player.
get_current_player == players[current_player_index + 1]

\* The value of play_turn's locals outside a turn.
NoDice == [sum |-> 0, is_double |-> FALSE]
NoCell == -1

\* The value of ret after a step of play_turn, which returns nothing.
NoCall == [ok |-> TRUE, of |-> "play_turn"]

\* Cell.on_land of the cell kinds: the action it answers with.
on_land(w, p, c) ==
  CASE c.type = "property" ->
         IF w.owner[c.id] = None THEN "purchase_offer"
         ELSE IF w.owner[c.id] # p THEN "pay_rent"
         ELSE "own_property"
    [] c.type = "start" -> "start"
    [] c.type = "tax" -> "pay_tax"
    [] c.type = "jail" -> IF in_jail[p] THEN "in_jail" ELSE "just_visiting"
    [] c.type = "go_to_jail" -> "go_to_jail"

\* TurnManager.send_to_jail that leaves the counter of jail turns alone.
send_to_jail_uncounted(p) ==
  /\ in_jail' = [in_jail EXCEPT ![p] = TRUE]
  /\ jail_turns_left' = jail_turns_left
  /\ position' = [position EXCEPT ![p] = JailTarget]

\* TurnManager.send_to_jail.
send_to_jail(p) ==
  /\ in_jail' = [in_jail EXCEPT ![p] = TRUE]
  /\ jail_turns_left' = [jail_turns_left EXCEPT ![p] = JailTurns]
  /\ position' = [position EXCEPT ![p] = JailTarget]

\* play_turn without the jail test after TurnManager.start_turn.
StartTurnJailedRolls ==
  /\ pc = "idle"
  /\ ~is_paused
  /\ LET p == get_current_player
         left == jail_turns_left[p] - 1
         released == left <= 0
     IN  /\ double_roll_count' = 0
         /\ IF in_jail[p]
              THEN /\ jail_turns_left' = [jail_turns_left EXCEPT ![p] = left]
                   /\ in_jail' = [in_jail EXCEPT ![p] = ~released]
              ELSE UNCHANGED <<in_jail, jail_turns_left>>
         /\ pc' = "roll_dice"
  /\ ret' = NoCall
  /\ UNCHANGED <<sessionVars, balance, position, properties, bankrupt, cellVars,
                 transaction_log, reserveVars, tradeVars, auction, dice_result, cell, effect,
                 historyVars>>

\* play_turn up to the jail test: the pause test, TurnManager.start_turn.
StartTurn ==
  /\ pc = "idle"
  /\ ~is_paused
  /\ LET p == get_current_player
         left == jail_turns_left[p] - 1
         released == left <= 0
     IN  /\ double_roll_count' = 0
         /\ IF in_jail[p]
              THEN /\ jail_turns_left' = [jail_turns_left EXCEPT ![p] = left]
                   /\ in_jail' = [in_jail EXCEPT ![p] = ~released]
              ELSE UNCHANGED <<in_jail, jail_turns_left>>
         /\ pc' = IF in_jail'[p] THEN "end_turn" ELSE "roll_dice"
  /\ ret' = NoCall
  /\ UNCHANGED <<sessionVars, balance, position, properties, bankrupt, cellVars,
                 transaction_log, reserveVars, tradeVars, auction, dice_result, cell, effect,
                 historyVars>>

\* TurnManager.roll_dice with Dice.roll.
RollDice ==
  /\ pc = "roll_dice"
  /\ \E die1 \in DieFaces, die2 \in DieFaces :
       LET is_double == die1 = die2
           p == get_current_player
       IN  /\ dice_result' = [sum |-> die1 + die2, is_double |-> is_double]
           /\ double_roll_count' =
                IF is_double THEN double_roll_count + 1 ELSE double_roll_count
           /\ doubles_run' = [doubles_run EXCEPT ![p] = IF is_double THEN @ + 1 ELSE 0]
  /\ roll_count' = roll_count + 1
  /\ pc' = "move_player"
  /\ ret' = NoCall
  /\ UNCHANGED <<sessionVars, playerVars, cellVars, transaction_log, reserveVars, tradeVars,
                 auction, cell, effect, call_count, defaulted>>

\* TurnManager.move_player that pays nothing to a player who stops on
\* Start.
MovePlayerPastStartOnly ==
  /\ pc = "move_player"
  /\ LET p == get_current_player
         old_position == position[p]
         new_position == next_position(old_position, dice_result.sum)
         w == IF new_position < old_position /\ new_position # 0
                THEN credit(World, p, PassStartBonus, <<"Pass Start">>)
                ELSE World
     IN  /\ SetWorld(w)
         /\ position' = [position EXCEPT ![p] = new_position]
         /\ cell' = new_position
  /\ pc' = "apply_cell_effects"
  /\ ret' = NoCall
  /\ UNCHANGED <<sessionVars, in_jail, jail_turns_left, bankrupt, reserveVars, tradeVars,
                 auction, double_roll_count, dice_result, effect, historyVars>>

\* player.py Player.move: whether a move of steps from old_position on a
\* board of the given size is paid the salary.
player_move_wraps(old_position, steps, size) ==
  LET new_position == (old_position + steps) % size
  IN  new_position < old_position \/ old_position + steps >= size

\* TurnManager.move_player.
MovePlayer ==
  /\ pc = "move_player"
  /\ LET p == get_current_player
         old_position == position[p]
         new_position == next_position(old_position, dice_result.sum)
         w == IF new_position < old_position
                THEN credit(World, p, PassStartBonus, <<"Pass Start">>)
                ELSE World
     IN  /\ SetWorld(w)
         /\ position' = [position EXCEPT ![p] = new_position]
         /\ cell' = new_position
  /\ pc' = "apply_cell_effects"
  /\ ret' = NoCall
  /\ UNCHANGED <<sessionVars, in_jail, jail_turns_left, bankrupt, reserveVars, tradeVars,
                 auction, double_roll_count, dice_result, effect, historyVars>>

\* What TurnManager.apply_cell_effects does to the world for one landing,
\* and what it reports.
cell_effects(w, p, c) ==
  LET action == on_land(w, p, c)
  IN  CASE action = "purchase_offer" ->
             IF w.balance[p] >= PropertyData[c.id].price
               THEN LET r == purchase_property(w, p, c.id)
                    IN  [w |-> r.w,
                         effect |-> IF r.ok THEN "purchased" ELSE "purchase_failed"]
               ELSE [w |-> w, effect |-> "cannot_afford"]
        [] action = "pay_rent" ->
             LET r == pay_rent(w, p, w.owner[c.id], c.id)
             IN  [w |-> r.w, effect |-> IF r.ok THEN "rent_paid" ELSE "rent_unpaid"]
        [] action = "pay_tax" ->
             LET r == debit(w, p, TaxAmount[c.id], <<"Tax">>)
             IN  [w |-> r.w, effect |-> IF r.ok THEN "tax_paid" ELSE "tax_unpaid"]
        [] OTHER -> [w |-> w, effect |-> action]

\* TurnManager.apply_cell_effects.
ApplyCellEffects ==
  /\ pc = "apply_cell_effects"
  /\ LET p == get_current_player
         r == cell_effects(World, p, get_cell(cell))
     IN  /\ SetWorld(r.w)
         /\ effect' = r.effect
         /\ IF r.effect = "go_to_jail"
              THEN send_to_jail(p)
              ELSE UNCHANGED <<in_jail, jail_turns_left, position>>
         /\ defaulted' = IF r.effect \in {"rent_unpaid", "tax_unpaid"}
                           THEN defaulted \cup {p} ELSE defaulted
  /\ pc' = "offer_optional_actions"
  /\ ret' = NoCall
  /\ UNCHANGED <<sessionVars, bankrupt, reserveVars, tradeVars, auction, double_roll_count,
                 dice_result, cell, roll_count, call_count, doubles_run>>

\* TurnManager.offer_optional_actions: the list it returns.
offer_optional_actions(w, p) ==
  [ build |-> SelectSeq(w.properties[p], LAMBDA x : can_build(w, x)),
    mortgage |-> SelectSeq(w.properties[p], LAMBDA x : ~w.is_mortgaged[x]),
    trade |-> TRUE ]

\* A call of offer_optional_actions that builds on the first property of
\* its build list.
OfferOptionalActionsTaken ==
  /\ pc = "offer_optional_actions"
  /\ LET p == get_current_player
         actions == offer_optional_actions(World, p)
     IN  SetWorld(IF actions.build = <<>> THEN World
                  ELSE pay_build_cost(World, p, Head(actions.build)).w)
  /\ pc' = "end_turn"
  /\ ret' = NoCall
  /\ UNCHANGED <<sessionVars, position, in_jail, jail_turns_left, bankrupt, reserveVars,
                 tradeVars, auction, double_roll_count, dice_result, cell, effect, historyVars>>

\* play_turn's call of offer_optional_actions: the list is only counted.
OfferOptionalActions ==
  /\ pc = "offer_optional_actions"
  /\ pc' = "end_turn"
  /\ ret' = NoCall
  /\ UNCHANGED <<sessionVars, playerVars, cellVars, transaction_log, reserveVars, tradeVars,
                 auction, double_roll_count, dice_result, cell, effect, historyVars>>

\* TurnManager.end_turn that leaves the turn with the player who rolled
\* a double.
EndTurnDoubleKeeps ==
  /\ pc = "end_turn"
  /\ IF double_roll_count >= DoublesLimit
       THEN send_to_jail(get_current_player)
       ELSE UNCHANGED <<in_jail, jail_turns_left, position>>
  /\ current_player_index' =
       IF dice_result.is_double THEN current_player_index
       ELSE (current_player_index + 1) % Len(players)
  /\ pc' = "idle"
  /\ dice_result' = NoDice
  /\ cell' = NoCell
  /\ effect' = "none"
  /\ ret' = NoCall
  /\ UNCHANGED <<players, is_paused, balance, properties, bankrupt, cellVars,
                 transaction_log, reserveVars, tradeVars, auction, double_roll_count, historyVars>>

\* TurnManager.end_turn with GameSession.end_turn.
EndTurn ==
  /\ pc = "end_turn"
  /\ IF double_roll_count >= DoublesLimit
       THEN send_to_jail(get_current_player)
       ELSE UNCHANGED <<in_jail, jail_turns_left, position>>
  /\ current_player_index' = (current_player_index + 1) % Len(players)
  /\ pc' = "idle"
  /\ dice_result' = NoDice
  /\ cell' = NoCell
  /\ effect' = "none"
  /\ ret' = NoCall
  /\ UNCHANGED <<players, is_paused, balance, properties, bankrupt, cellVars,
                 transaction_log, reserveVars, tradeVars, auction, double_roll_count, historyVars>>

\* ------------------------------- calls from outside a turn (finance.py)

\* A call between two turns: what it does to the world, to the pending
\* offers and to the auction, and what it returns.
Call(w, pending, auc, result) ==
  /\ pc = "idle"
  /\ SetWorld(w)
  /\ pending_offers' = pending
  /\ auction' = auc
  /\ ret' = result
  /\ call_count' = call_count + 1
  /\ UNCHANGED <<sessionVars, position, in_jail, jail_turns_left, bankrupt,
                 reserveVars, turnVars, roll_count, doubles_run, defaulted>>

Debit(p, amount) ==
  LET r == debit(World, p, amount, <<"call">>)
  IN  Call(r.w, pending_offers, auction, [ok |-> r.ok, of |-> "debit"])

Credit(p, amount) ==
  Call(credit(World, p, amount, <<"call">>), pending_offers, auction,
       [ok |-> TRUE, of |-> "credit"])

Transfer(from_player, to_player, amount) ==
  LET r == transfer(World, from_player, to_player, amount, <<"call">>)
  IN  Call(r.w, pending_offers, auction, [ok |-> r.ok, of |-> "transfer"])

PurchaseProperty(p, prop) ==
  LET r == purchase_property(World, p, prop)
  IN  Call(r.w, pending_offers, auction, [ok |-> r.ok, of |-> "purchase_property"])

MortgageProperty(p, prop) ==
  LET r == mortgage_property(World, p, prop)
  IN  Call(r.w, pending_offers, auction, [ok |-> r.ok, of |-> "mortgage_property"])

RedeemMortgage(p, prop) ==
  LET r == redeem_mortgage(World, p, prop)
  IN  Call(r.w, pending_offers, auction, [ok |-> r.ok, of |-> "redeem_mortgage"])

PayBuildCost(p, prop) ==
  LET r == pay_build_cost(World, p, prop)
  IN  Call(r.w, pending_offers, auction, [ok |-> r.ok, of |-> "pay_build_cost"])

\* Bank.pay_rent called with the owner of the cell, as apply_cell_effects
\* calls it.
PayRent(payer, prop) ==
  LET r == pay_rent(World, payer, owner[prop], prop)
  IN  Call(r.w, pending_offers, auction, [ok |-> r.ok, of |-> "pay_rent"])

RefundBuilding(p, prop) ==
  Call(refund_building(World, p, prop), pending_offers, auction,
       [ok |-> TRUE, of |-> "refund_building"])

\* TradeManager.create_offer: the TradeOffer for one payload.
create_offer(from_player, to_player, money_from, money_to, properties_from, properties_to) ==
  [ from_player |-> from_player, to_player |-> to_player,
    money_from |-> money_from, money_to |-> money_to,
    properties_from |-> properties_from, properties_to |-> properties_to ]

\* TradeOffer.is_valid (an offer carries no cards here).
is_valid(o) ==
  LET has_offer == o.money_from > 0 \/ Len(o.properties_from) > 0
      has_request == o.money_to > 0 \/ Len(o.properties_to) > 0
  IN  has_offer \/ has_request

\* The property loops of TradeManager.validate without the test of the
\* build level.
RECURSIVE validate_properties_unbuilt(_, _, _, _)
validate_properties_unbuilt(w, props, side, whose) ==
  IF props = <<>> THEN "Valid"
  ELSE IF w.owner[Head(props)] # side THEN whose
  ELSE validate_properties_unbuilt(w, Tail(props), side, whose)

\* The property loops of TradeManager.validate: the first complaint about
\* a property of the list, or "Valid".
RECURSIVE validate_properties(_, _, _, _)
validate_properties(w, props, side, whose) ==
  IF props = <<>> THEN "Valid"
  ELSE IF w.owner[Head(props)] # side THEN whose
  ELSE IF w.build_level[Head(props)] > 0 THEN "has buildings"
  ELSE validate_properties(w, Tail(props), side, whose)

\* TradeManager.validate.
validate(w, o) ==
  IF ~is_valid(o) THEN [ok |-> FALSE, reason |-> "Empty offer"]
  ELSE IF o.money_from > w.balance[o.from_player]
    THEN [ok |-> FALSE, reason |-> "Insufficient funds from sender"]
  ELSE IF o.money_to > w.balance[o.to_player]
    THEN [ok |-> FALSE, reason |-> "Insufficient funds from receiver"]
  ELSE
    LET f == validate_properties(w, o.properties_from, o.from_player, "not owned by sender")
        t == validate_properties(w, o.properties_to, o.to_player, "not owned by receiver")
    IN  IF f # "Valid" THEN [ok |-> FALSE, reason |-> f]
        ELSE IF t # "Valid" THEN [ok |-> FALSE, reason |-> t]
        ELSE [ok |-> TRUE, reason |-> "Valid"]

\* TradeManager.submit that queues the offer whatever validate says.
submit_unvalidated(pending, w, o) ==
  [ok |-> validate(w, o).ok, pending |-> Append(pending, o)]

\* TradeManager.submit.
submit(pending, w, o) ==
  IF ~validate(w, o).ok THEN [ok |-> FALSE, pending |-> pending]
  ELSE [ok |-> TRUE, pending |-> Append(pending, o)]

\* TradeManager.accept.
accept(pending, w, o) ==
  IF ~Contains(pending, o) THEN [ok |-> FALSE, pending |-> pending, w |-> w]
  ELSE LET r == settle_trade(w, o)
       IN  [ok |-> r.ok,
            pending |-> IF r.ok THEN RemoveFirst(pending, o) ELSE pending,
            w |-> r.w]

\* TradeManager.decline.
decline(pending, o) ==
  IF Contains(pending, o) THEN RemoveFirst(pending, o) ELSE pending

Submit(o) ==
  LET r == submit(pending_offers, World, o)
  IN  Call(World, r.pending, auction, [ok |-> r.ok, of |-> "submit"])

\* accept of an offer object that is in the pending list.
Accept(o) ==
  /\ Contains(pending_offers, o)
  /\ LET r == accept(pending_offers, World, o)
     IN  Call(r.w, r.pending, auction, [ok |-> r.ok, of |-> "accept"])

\* accept of an offer object that was never submitted or is no longer
\* pending: `offer not in self.pending_offers` compares identities.
AcceptNotPending(o) ==
  LET r == accept(<<>>, World, o)
  IN  Call(r.w, pending_offers, auction, [ok |-> r.ok, of |-> "accept (not pending)"])

Decline(o) ==
  /\ Contains(pending_offers, o)
  /\ Call(World, decline(pending_offers, o), auction, [ok |-> TRUE, of |-> "decline"])

\* dict.get: the value the adjustments give for the key, or the default.
adjusted(adjustments, key, default) ==
  IF key \in DOMAIN adjustments THEN adjustments[key] ELSE default

\* TradeManager.counter that swaps the parties and leaves each leg on its
\* side.
counter_not_mirrored(o, adjustments) ==
  [ from_player |-> o.to_player, to_player |-> o.from_player,
    money_from |-> adjusted(adjustments, "money_from", o.money_from),
    money_to |-> adjusted(adjustments, "money_to", o.money_to),
    properties_from |-> adjusted(adjustments, "properties_from", o.properties_from),
    properties_to |-> adjusted(adjustments, "properties_to", o.properties_to) ]

\* TradeManager.counter.
counter(o, adjustments) ==
  [ from_player |-> o.to_player, to_player |-> o.from_player,
    money_from |-> adjusted(adjustments, "money_from", o.money_to),
    money_to |-> adjusted(adjustments, "money_to", o.money_from),
    properties_from |-> adjusted(adjustments, "properties_from", o.properties_to),
    properties_to |-> adjusted(adjustments, "properties_to", o.properties_from) ]

\* A call of TradeManager.counter: the offer and the adjustments it was
\* given and the offer it returned.
Counter(o, adjustments) ==
  Call(World, pending_offers, auction,
       [ok |-> TRUE, of |-> "counter", offer |-> o, adjustments |-> adjustments,
        value |-> counter(o, adjustments)])

\* Auction.start that keeps the bids of the auction before.
start_keeping_bids(a, prop, participants) ==
  [ property |-> prop, participants |-> participants, bids |-> a.bids, is_active |-> TRUE ]

\* Auction.start.
start(a, prop, participants) ==
  [ property |-> prop, participants |-> participants, bids |-> <<>>, is_active |-> TRUE ]

\* Auction.place_bid that lets a bid equal to the last one through.
place_bid_not_strict(a, w, p, amount) ==
  IF ~a.is_active \/ ~Contains(a.participants, p) THEN [ok |-> FALSE, a |-> a]
  ELSE IF w.balance[p] < amount THEN [ok |-> FALSE, a |-> a]
  ELSE IF a.bids # <<>> /\ amount < a.bids[Len(a.bids)][2] THEN [ok |-> FALSE, a |-> a]
  ELSE [ok |-> TRUE, a |-> [a EXCEPT !.bids = Append(@, <<p, amount>>)]]

\* Auction.place_bid.
place_bid(a, w, p, amount) ==
  IF ~a.is_active \/ ~Contains(a.participants, p) THEN [ok |-> FALSE, a |-> a]
  ELSE IF w.balance[p] < amount THEN [ok |-> FALSE, a |-> a]
  ELSE IF a.bids # <<>> /\ amount <= a.bids[Len(a.bids)][2] THEN [ok |-> FALSE, a |-> a]
  ELSE [ok |-> TRUE, a |-> [a EXCEPT !.bids = Append(@, <<p, amount>>)]]

\* Auction.close that returns the first bid.
close_first_bid(a) ==
  [ a |-> [a EXCEPT !.is_active = FALSE],
    result |-> IF a.bids = <<>>
                 THEN [is_none |-> TRUE]
                 ELSE [is_none |-> FALSE, winner |-> a.bids[1][1],
                       amount |-> a.bids[1][2], property |-> a.property] ]

\* Auction.close.
close(a) ==
  [ a |-> [a EXCEPT !.is_active = FALSE],
    result |-> IF a.bids = <<>>
                 THEN [is_none |-> TRUE]
                 ELSE [is_none |-> FALSE, winner |-> a.bids[Len(a.bids)][1],
                       amount |-> a.bids[Len(a.bids)][2], property |-> a.property] ]

StartAuction(prop, participants) ==
  Call(World, pending_offers, start(auction, prop, participants),
       [ok |-> TRUE, of |-> "start"])

PlaceBid(p, amount) ==
  LET r == place_bid(auction, World, p, amount)
  IN  Call(World, pending_offers, r.a, [ok |-> r.ok, of |-> "place_bid"])

\* Auction.close alone.
Close ==
  LET c == close(auction)
  IN  Call(World, pending_offers, c.a,
           [ok |-> TRUE, of |-> "close", result |-> c.result])

\* Auction.close followed by Bank.resolve_auction on what it returned.
CloseAuction ==
  LET c == close(auction)
      r == resolve_auction(World, c.result)
  IN  Call(r.w, pending_offers, c.a,
           [ok |-> ~r.raised, of |-> "resolve_auction", result |-> c.result])

\* ------------------------------------------------- Bank (bank.py)

\* bank.py's ledger: the balances, the reserve and the log it appends to.
Ledger ==
  [ balance |-> balance, available_money |-> available_money,
    transactions |-> transactions ]

\* The endpoint of a bank.py transfer that is the bank (from_player or
\* to_player is None).
TheBank == "Bank"

\* bank.py Bank.transfer that pays out of the bank without looking at the
\* reserve.
bank_transfer_unbacked(b, from_player, to_player, amount) ==
  IF from_player # TheBank /\ b.balance[from_player] < amount
    THEN [ok |-> FALSE, b |-> b]
  ELSE
    LET b1 == IF from_player # TheBank
                THEN [b EXCEPT !.balance[from_player] = @ - amount]
                ELSE [b EXCEPT !.available_money = @ - amount]
        b2 == IF to_player # TheBank
                THEN [b1 EXCEPT !.balance[to_player] = @ + amount]
                ELSE [b1 EXCEPT !.available_money = @ + amount]
    IN  [ok |-> TRUE,
         b |-> [b2 EXCEPT !.transactions =
                  Append(@, [from |-> from_player, to |-> to_player, amount |-> amount])]]

\* bank.py Bank.transfer.
bank_transfer(b, from_player, to_player, amount) ==
  IF from_player # TheBank /\ b.balance[from_player] < amount
    THEN [ok |-> FALSE, b |-> b]
  ELSE IF from_player = TheBank /\ b.available_money < amount
    THEN [ok |-> FALSE, b |-> b]
  ELSE
    LET b1 == IF from_player # TheBank
                THEN [b EXCEPT !.balance[from_player] = @ - amount]
                ELSE [b EXCEPT !.available_money = @ - amount]
        b2 == IF to_player # TheBank
                THEN [b1 EXCEPT !.balance[to_player] = @ + amount]
                ELSE [b1 EXCEPT !.available_money = @ + amount]
    IN  [ok |-> TRUE,
         b |-> [b2 EXCEPT !.transactions =
                  Append(@, [from |-> from_player, to |-> to_player, amount |-> amount])]]

BankTransfer(from_player, to_player, amount) ==
  LET r == bank_transfer(Ledger, from_player, to_player, amount)
  IN  /\ pc = "idle"
      /\ balance' = r.b.balance
      /\ available_money' = r.b.available_money
      /\ transactions' = r.b.transactions
      /\ ret' = [ok |-> r.ok, of |-> "bank_transfer"]
      /\ call_count' = call_count + 1
      /\ UNCHANGED <<sessionVars, position, properties, in_jail, jail_turns_left,
                     bankrupt, cellVars, transaction_log, tradeVars, auction,
                     turnVars, roll_count, doubles_run, defaulted>>

\* player.py Player.buy_property: the price goes to the bank.
BuyProperty(p, prop) ==
  LET r == IF owner[prop] # None THEN [ok |-> FALSE, b |-> Ledger]
           ELSE bank_transfer(Ledger, p, TheBank, PropertyData[prop].price)
  IN  /\ pc = "idle"
      /\ balance' = r.b.balance
      /\ available_money' = r.b.available_money
      /\ transactions' = r.b.transactions
      /\ owner' = IF r.ok THEN [owner EXCEPT ![prop] = p] ELSE owner
      /\ properties' = IF r.ok THEN [properties EXCEPT ![p] = Append(@, prop)]
                                ELSE properties
      /\ ret' = [ok |-> r.ok, of |-> "buy_property"]
      /\ call_count' = call_count + 1
      /\ UNCHANGED <<sessionVars, position, in_jail, jail_turns_left, bankrupt,
                     build_level, is_mortgaged, transaction_log, tradeVars, auction,
                     turnVars, roll_count, doubles_run, defaulted>>

\* property.py Property._check_monopoly; every property here has a group.
property_check_monopoly(w, prop) ==
  /\ w.owner[prop] # None
  /\ \A c \in get_group_cells(PropertyData[prop].color_group) :
        w.owner[c] = w.owner[prop]

\* property.py Property.calculate_rent: rent is base_rent, houses is
\* build_level.
property_calculate_rent(w, prop, tenant) ==
  IF w.is_mortgaged[prop] \/ w.owner[prop] = None \/ w.owner[prop] = tenant THEN 0
  ELSE IF property_check_monopoly(w, prop)
    THEN IF w.build_level[prop] = 0
           THEN PropertyData[prop].base_rent * 2
           ELSE PropertyData[prop].base_rent * (1 + w.build_level[prop])
  ELSE PropertyData[prop].base_rent

\* property.py Property.mortgage: the amount it returns and the world it
\* leaves.
property_mortgage(w, prop) ==
  IF ~w.is_mortgaged[prop] /\ w.build_level[prop] = 0
    THEN [value |-> PropertyData[prop].price \div 2,
          w |-> [w EXCEPT !.is_mortgaged[prop] = TRUE]]
  ELSE [value |-> 0, w |-> w]

\* A call of Property.mortgage.
PropertyMortgage(prop) ==
  LET r == property_mortgage(World, prop)
  IN  Call(r.w, pending_offers, auction,
           [ok |-> r.value # 0, of |-> "Property.mortgage", value |-> r.value])

\* player.py Player.pay_rent: the rent of Property.calculate_rent goes to
\* the owner through bank.py Bank.transfer; a tenant who cannot pay it
\* goes through Bank.handle_bankruptcy.
PlayerPayRent(p, prop) ==
  LET rent == property_calculate_rent(World, prop, p)
      r == IF owner[prop] = None \/ owner[prop] = p \/ rent = 0
             THEN [ok |-> TRUE, b |-> Ledger]
             ELSE bank_transfer(Ledger, p, owner[prop], rent)
      released == IF r.ok THEN {} ELSE Range(properties[p])
  IN  /\ pc = "idle"
      /\ balance' = IF r.ok THEN r.b.balance ELSE [r.b.balance EXCEPT ![p] = 0]
      /\ available_money' = r.b.available_money
      /\ transactions' = r.b.transactions
      /\ owner' = [c \in DOMAIN owner |-> IF c \in released THEN None ELSE owner[c]]
      /\ build_level' = [c \in DOMAIN build_level |->
                            IF c \in released THEN 0 ELSE build_level[c]]
      /\ is_mortgaged' = [c \in DOMAIN is_mortgaged |->
                             IF c \in released THEN FALSE ELSE is_mortgaged[c]]
      /\ properties' = IF r.ok THEN properties ELSE [properties EXCEPT ![p] = <<>>]
      /\ bankrupt' = IF r.ok THEN bankrupt ELSE [bankrupt EXCEPT ![p] = TRUE]
      /\ ret' = [ok |-> r.ok, of |-> "Player.pay_rent"]
      /\ call_count' = call_count + 1
      /\ UNCHANGED <<sessionVars, position, in_jail, jail_turns_left,
                     transaction_log, tradeVars, auction, turnVars, roll_count,
                     doubles_run, defaulted>>

\* ------------------------------------------- GameSession (game.py)

\* A call of the session between two turns that only sets the pause flag.
SetPaused(flag, name) ==
  /\ pc = "idle"
  /\ is_paused' = flag
  /\ ret' = [ok |-> TRUE, of |-> name]
  /\ call_count' = call_count + 1
  /\ UNCHANGED <<players, current_player_index, playerVars, cellVars, transaction_log,
                 reserveVars, tradeVars, auction, turnVars, roll_count, doubles_run,
                 defaulted>>

\* GameSession.pause.
Pause == SetPaused(TRUE, "pause")

\* GameSession.resume.
Resume == SetPaused(FALSE, "resume")

\* GameSession.play_turn of a paused session: it returns at once.
PlayTurnPaused ==
  /\ pc = "idle"
  /\ is_paused
  /\ ret' = NoCall
  /\ UNCHANGED <<sessionVars, playerVars, cellVars, transaction_log, reserveVars,
                 tradeVars, auction, turnVars, historyVars>>

\* ------------------------------------------------------------ sessions

NoAuction == [property |-> None, participants |-> <<>>, bids |-> <<>>, is_active |-> FALSE]

\* GameSession.start for one roster.
InitSession(roster) ==
  /\ players = roster
  /\ current_player_index = 0
  /\ is_paused = FALSE
  /\ balance = [p \in Range(roster) |-> StartBalance]
  /\ position = [p \in Range(roster) |-> 0]
  /\ properties = [p \in Range(roster) |-> <<>>]
  /\ in_jail = [p \in Range(roster) |-> FALSE]
  /\ jail_turns_left = [p \in Range(roster) |-> 0]
  /\ bankrupt = [p \in Range(roster) |-> FALSE]
  /\ owner = [c \in PropIds |-> None]
  /\ build_level = [c \in PropIds |-> 0]
  /\ is_mortgaged = [c \in PropIds |-> FALSE]
  /\ transaction_log = <<>>
  /\ available_money = BankReserve
  /\ transactions = <<>>
  /\ double_roll_count = 0
  /\ pending_offers = <<>>
  /\ auction = NoAuction
  /\ pc = "idle"
  /\ dice_result = NoDice
  /\ cell = NoCell
  /\ effect = "none"
  /\ ret = NoCall
  /\ roll_count = 0
  /\ call_count = 0
  /\ doubles_run = [p \in Range(roster) |-> 0]
  /\ defaulted = {}

Init == \E roster \in Rosters : InitSession(roster)

\* A session is explored up to MaxSteps dice rolls and calls from outside
\* a turn.
SessionOpen == roll_count + call_count < MaxSteps

DoStartTurn == SessionOpen /\ StartTurn

\* One step of GameSession.play_turn.
PlayTurn ==
  \/ DoStartTurn
  \/ RollDice
  \/ MovePlayer
  \/ ApplyCellEffects
  \/ OfferOptionalActions
  \/ EndTurn

DoPause == SessionOpen /\ Pause

DoResume == SessionOpen /\ Resume

\* The session alone: play_turn, pause and resume.
Session == PlayTurn \/ PlayTurnPaused \/ DoPause \/ DoResume

SpecTurns == Init /\ [][Session]_vars

\* ------------------------------------------------- the whole engine

\* The properties bank calls from outside a turn are tried with: one of
\* the brown group and the only one of the orange group.
BankProps == {"prop2", "prop9"}

\* The offers trade calls are tried with, between two different players
\* of the roster: an empty offer, a gift of nearly a whole starting
\* capital, that sum each way, a property for that sum, a property for a
\* property.
OfferPayloads ==
  { [money_from |-> 0,    money_to |-> 0,    properties_from |-> <<>>,        properties_to |-> <<>>],
    [money_from |-> 1495, money_to |-> 0,    properties_from |-> <<>>,        properties_to |-> <<>>],
    [money_from |-> 1495, money_to |-> 1495, properties_from |-> <<>>,        properties_to |-> <<>>],
    [money_from |-> 0,    money_to |-> 1495, properties_from |-> <<"prop9">>, properties_to |-> <<>>],
    [money_from |-> 0,    money_to |-> 0,    properties_from |-> <<"prop9">>, properties_to |-> <<"prop2">>] }
PlayerPairs == { pair \in Range(players) \X Range(players) : pair[1] # pair[2] }
Offers ==
  { create_offer(pair[1], pair[2], l.money_from, l.money_to,
                 l.properties_from, l.properties_to) :
      pair \in PlayerPairs, l \in OfferPayloads }

\* The property, the participant lists and the amounts auctions are tried
\* with.
AuctionProps == {"prop9"}
ParticipantLists == { players, <<players[1]>> }
BidAmounts == {-5, 100, 120, 3000}

\* The amount a direct debit is tried with: all but 5 of a starting capital.
DebitAmounts == {1495}

BankOpen == SessionOpen

DoDebit ==
  \E p \in Range(players), amount \in DebitAmounts : BankOpen /\ Debit(p, amount)

DoPurchase ==
  \E p \in Range(players), prop \in BankProps : BankOpen /\ PurchaseProperty(p, prop)

DoMortgage ==
  \E p \in Range(players), prop \in BankProps : BankOpen /\ MortgageProperty(p, prop)

DoRedeem ==
  \E p \in Range(players), prop \in BankProps : BankOpen /\ RedeemMortgage(p, prop)

DoBuild ==
  \E p \in Range(players), prop \in BankProps : BankOpen /\ PayBuildCost(p, prop)

DoRefund ==
  \E p \in Range(players), prop \in BankProps : BankOpen /\ RefundBuilding(p, prop)

DoSubmit ==
  \E o \in Offers : BankOpen /\ Len(pending_offers) < MaxPending /\ Submit(o)

DoAccept ==
  \E o \in Offers : BankOpen /\ Accept(o)

DoAcceptNotPending ==
  \E o \in Offers : BankOpen /\ AcceptNotPending(o)

DoDecline ==
  \E o \in Offers : BankOpen /\ Decline(o)

DoStartAuction ==
  \E prop \in AuctionProps, participants \in ParticipantLists :
    BankOpen /\ StartAuction(prop, participants)

DoPlaceBid ==
  \E p \in Range(players), amount \in BidAmounts :
    BankOpen /\ Len(auction.bids) < MaxBids /\ PlaceBid(p, amount)

DoCloseAuction == BankOpen /\ auction.is_active /\ CloseAuction

BankCalls ==
  \/ DoDebit
  \/ DoPurchase
  \/ DoMortgage
  \/ DoRedeem
  \/ DoBuild
  \/ DoRefund
  \/ DoSubmit
  \/ DoAccept
  \/ DoAcceptNotPending
  \/ DoDecline
  \/ DoStartAuction
  \/ DoPlaceBid
  \/ DoCloseAuction

\* The bank, the trade manager and the auction called on a fresh session.
SpecBank == Init /\ [][BankCalls]_vars

\* play_turn and the calls of the bank, the trade manager and the auction
\* from outside a turn, in any order.
Next == PlayTurn \/ BankCalls

Spec == Init /\ [][Next]_vars

\* ------------------------------------------------ turns and purchases

DoBuyProperty ==
  \E p \in Range(players), prop \in BankProps : BankOpen /\ BuyProperty(p, prop)

\* play_turn, purchases of either implementation and direct debits.
NextGame == PlayTurn \/ DoDebit \/ DoPurchase \/ DoBuyProperty

SpecGame == Init /\ [][NextGame]_vars

\* --------------------------------------------------------- the auction

AuctionOpen == call_count < MaxAuctionCalls

AuctionStart ==
  \E prop \in AuctionProps, participants \in ParticipantLists :
    AuctionOpen /\ StartAuction(prop, participants)

AuctionBid ==
  \E p \in Range(players), amount \in BidAmounts : AuctionOpen /\ PlaceBid(p, amount)

AuctionClose == AuctionOpen /\ Close

AuctionResolve == AuctionOpen /\ CloseAuction

AuctionDebit ==
  \E p \in Range(players), amount \in DebitAmounts : AuctionOpen /\ Debit(p, amount)

NextAuction ==
  AuctionStart \/ AuctionBid \/ AuctionClose \/ AuctionResolve \/ AuctionDebit

\* The auction called on a fresh session, with direct debits between its
\* calls.
SpecAuction == Init /\ [][NextAuction]_vars

\* ------------------------------------------------------ the properties

\* The brown group and the only property of the orange group.
EstateProps == {"prop1", "prop2", "prop9"}

\* Gifts of one property between two different players.
EstateOffers ==
  { create_offer(pair[1], pair[2], 0, 0, <<prop>>, <<>>) :
      pair \in PlayerPairs, prop \in {"prop2", "prop9"} }

EstateOpen == call_count < MaxEstateCalls

EstatePurchase ==
  \E p \in Range(players), prop \in EstateProps : EstateOpen /\ PurchaseProperty(p, prop)

EstateMortgage ==
  \E p \in Range(players), prop \in EstateProps : EstateOpen /\ MortgageProperty(p, prop)

EstateRedeem ==
  \E p \in Range(players), prop \in EstateProps : EstateOpen /\ RedeemMortgage(p, prop)

EstateBuild ==
  \E p \in Range(players), prop \in EstateProps : EstateOpen /\ PayBuildCost(p, prop)

EstateRefund ==
  \E p \in Range(players), prop \in EstateProps : EstateOpen /\ RefundBuilding(p, prop)

EstateRent ==
  \E p \in Range(players), prop \in EstateProps : EstateOpen /\ PayRent(p, prop)

\* A direct debit that leaves an owner too little to redeem with.
EstateDebit ==
  \E p \in Range(players), amount \in {1450} : EstateOpen /\ Debit(p, amount)

EstateSubmit ==
  \E o \in EstateOffers : EstateOpen /\ Len(pending_offers) < MaxPending /\ Submit(o)

EstateAccept ==
  \E o \in EstateOffers : EstateOpen /\ Accept(o)

NextEstate ==
  \/ EstatePurchase \/ EstateMortgage \/ EstateRedeem \/ EstateBuild
  \/ EstateRefund \/ EstateRent \/ EstateDebit \/ EstateSubmit \/ EstateAccept

\* Purchases, mortgages, buildings, rent and gifts of properties on a fresh
\* session.
SpecEstate == Init /\ [][NextEstate]_vars

\* The same with the calls of player.py and property.py on the brown
\* properties, which both boards have.
PropertyProps == {"prop1", "prop2"}

PropertyBuy ==
  \E p \in Range(players), prop \in PropertyProps : EstateOpen /\ BuyProperty(p, prop)

PropertyRent ==
  \E p \in Range(players), prop \in PropertyProps : EstateOpen /\ PlayerPayRent(p, prop)

PropertyMortgaging ==
  \E prop \in PropertyProps : EstateOpen /\ PropertyMortgage(prop)

NextProperty == NextEstate \/ PropertyBuy \/ PropertyRent \/ PropertyMortgaging

SpecProperty == Init /\ [][NextProperty]_vars

\* ------------------------------------------------------------ the hotel

\* The property the runs up to the hotel build on: the only one of the
\* orange group.
HotelProps == {"prop9"}

HotelOpen == call_count < MaxHotelCalls

HotelPurchase ==
  \E p \in Range(players), prop \in HotelProps : HotelOpen /\ PurchaseProperty(p, prop)

HotelRaise ==
  \E p \in Range(players), prop \in HotelProps : HotelOpen /\ PayBuildCost(p, prop)

HotelLower ==
  \E p \in Range(players), prop \in HotelProps : HotelOpen /\ RefundBuilding(p, prop)

NextHotel == HotelPurchase \/ HotelRaise \/ HotelLower

\* Purchases of the orange property and buildings on it.
SpecHotel == Init /\ [][NextHotel]_vars

\* -------------------------------------------------- the counter-offers

\* The offers counter is tried with: those of Offers whose two sides
\* differ.
CounterOffers ==
  { o \in Offers : o.money_from # o.money_to \/ o.properties_from # o.properties_to }

\* The adjustments counter is tried with: none, another sum offered, a
\* request dropped.
NoAdjustments == <<>>
Adjustments ==
  { NoAdjustments, [money_from |-> 50], [money_to |-> 0, properties_to |-> <<>>] }

\* The offers a call of counter or submit can be given: those above and
\* the offer the last call of counter returned.
OffersAtHand ==
  CounterOffers \cup (IF ret.of = "counter" THEN {ret.value} ELSE {})

CounterOpen == call_count < MaxCounterCalls

CounterSubmit == \E o \in OffersAtHand : CounterOpen /\ Submit(o)

CounterCall ==
  \E o \in OffersAtHand, adjustments \in Adjustments : CounterOpen /\ Counter(o, adjustments)

NextCounter == CounterSubmit \/ CounterCall

\* Offers submitted and countered on a started session.
SpecCounter == Init /\ [][NextCounter]_vars

\* ------------------------------------------------------- the buildings

BuildOpen == call_count < MaxBuildCalls

BuildPurchase ==
  \E p \in Range(players), prop \in PropertyProps : BuildOpen /\ PurchaseProperty(p, prop)

BuildRaise ==
  \E p \in Range(players), prop \in PropertyProps : BuildOpen /\ PayBuildCost(p, prop)

BuildLower ==
  \E p \in Range(players), prop \in PropertyProps : BuildOpen /\ RefundBuilding(p, prop)

BuildSubmit ==
  \E o \in EstateOffers : BuildOpen /\ pending_offers = <<>> /\ Submit(o)

BuildAccept ==
  \E o \in EstateOffers : BuildOpen /\ Accept(o)

NextBuild == BuildPurchase \/ BuildRaise \/ BuildLower \/ BuildSubmit \/ BuildAccept

\* Purchases of the brown properties, buildings on them and gifts of one
\* of them.
SpecBuild == Init /\ [][NextBuild]_vars

\* ------------------------------------------------------- the ownership

TitleOpen == call_count < MaxTitleCalls

TitlePurchase ==
  \E p \in Range(players), prop \in AuctionProps : TitleOpen /\ PurchaseProperty(p, prop)

TitleSubmit ==
  \E o \in EstateOffers : TitleOpen /\ Len(pending_offers) < MaxPending /\ Submit(o)

TitleAccept ==
  \E o \in EstateOffers : TitleOpen /\ Accept(o)

TitleStart ==
  \E prop \in AuctionProps : TitleOpen /\ StartAuction(prop, players)

TitleBid ==
  \E p \in Range(players), amount \in {100, 120} :
    TitleOpen /\ Len(auction.bids) < MaxBids /\ PlaceBid(p, amount)

TitleResolve == TitleOpen /\ auction.is_active /\ CloseAuction

NextTitle ==
  TitlePurchase \/ TitleSubmit \/ TitleAccept \/ TitleStart \/ TitleBid \/ TitleResolve

InitTitle == InitSession(<<"p1", "p2", "p3">>)

\* Purchases, gifts and auctions of properties among three players.
SpecTitle == InitTitle /\ [][NextTitle]_vars

\* ---------------------------------------------------------- the ledger

\* The amounts ledger calls are tried with.
LedgerAmounts == {-50, 0, 700, 2000}

\* Direct calls of the two ledgers, MaxLedgerCalls of them.
LedgerOpen == call_count < MaxLedgerCalls

LedgerDebit ==
  \E p \in Range(players), amount \in LedgerAmounts :
    LedgerOpen /\ Debit(p, amount)

LedgerCredit ==
  \E p \in Range(players), amount \in LedgerAmounts :
    LedgerOpen /\ Credit(p, amount)

LedgerTransfer ==
  \E p \in Range(players), q \in Range(players), amount \in LedgerAmounts :
    LedgerOpen /\ Transfer(p, q, amount)

LedgerBankTransfer ==
  \E p \in Range(players), q \in Range(players), amount \in LedgerAmounts :
    LedgerOpen /\ BankTransfer(p, q, amount)

NextLedger == LedgerDebit \/ LedgerCredit \/ LedgerTransfer \/ LedgerBankTransfer

InitLedger == InitSession(<<"p1", "p2">>)

SpecLedger == InitLedger /\ [][NextLedger]_vars

\* The amounts the bank is asked to pay: one it has, its whole reserve, one
\* above its reserve.
ReserveAmounts == {700, BankReserve, BankReserve + 1}

\* The endpoints of a bank.py transfer: the players and the bank.
Endpoints == Range(players) \cup {TheBank}

ReservePays ==
  \E t \in Endpoints, amount \in ReserveAmounts :
    LedgerOpen /\ BankTransfer(TheBank, t, amount)

ReserveReceives ==
  \E f \in Range(players), amount \in LedgerAmounts :
    LedgerOpen /\ BankTransfer(f, TheBank, amount)

NextReserve == LedgerBankTransfer \/ ReservePays \/ ReserveReceives

\* bank.py's ledger alone, with the bank at either end of a transfer.
SpecReserve == InitLedger /\ [][NextReserve]_vars

\* What C1 says of one transfer step from f to t, given the balances the
\* step starts and ends with.
TransferPost(f, t, amount) ==
  IF balance[f] >= amount
    THEN /\ ret'.ok
         /\ balance'[f] = balance[f] - amount
         /\ balance'[t] = balance[t] + amount
    ELSE /\ ~ret'.ok
         /\ balance' = balance

\* C1 as stated, for all players from and to: a successful transfer lowers
\* balance(from) by amount and raises balance(to) by amount, a failed one
\* leaves the balances unchanged.
C1_TransferAnyPair ==
  [][\A f \in Range(players), t \in Range(players), amount \in LedgerAmounts :
       (Transfer(f, t, amount) \/ BankTransfer(f, t, amount))
         => TransferPost(f, t, amount)]_vars

\* C1 amended: the same for two different players from and to; a successful
\* transfer from a player to the same player leaves the balance as it was.
C1_TransferDistinct ==
  [][\A f \in Range(players), t \in Range(players), amount \in LedgerAmounts :
       (Transfer(f, t, amount) \/ BankTransfer(f, t, amount))
         => IF f # t THEN TransferPost(f, t, amount)
            ELSE /\ ret'.ok = (balance[f] >= amount)
                 /\ balance' = balance]_vars

\* A successful transfer of a positive amount between two players and a
\* refused one have both happened.
C1_Witness ==
  /\ Len(transaction_log) >= 1
  /\ transaction_log[1].type = "transfer"
  /\ transaction_log[1].from_player # transaction_log[1].to_player
  /\ transaction_log[1].amount > 0
  /\ ret.of = "transfer"
  /\ ~ret.ok

\* ------------------------------------------------------- the balances

\* C2: in every state reached by turns and by the calls of the bank, the
\* trade manager and the auction, every player's balance is >= 0.
C2_BalanceNonNegative == \A p \in Range(players) : balance[p] >= 0

\* A player with 5 left has landed on a tax cell and the tax was refused.
C2_Witness ==
  /\ effect = "tax_unpaid"
  /\ balance[get_current_player] = 5

\* --------------------------------------------------------- the trades

\* The offer's money legs and property legs have all been applied.
Settled(o) ==
  /\ balance'[o.from_player] = balance[o.from_player] - o.money_from + o.money_to
  /\ balance'[o.to_player] = balance[o.to_player] + o.money_from - o.money_to
  /\ \A prop \in Range(o.properties_from) :
       /\ owner'[prop] = o.to_player
       /\ Contains(properties'[o.to_player], prop)
       /\ ~Contains(properties'[o.from_player], prop)
  /\ \A prop \in Range(o.properties_to) :
       /\ owner'[prop] = o.from_player
       /\ Contains(properties'[o.from_player], prop)
       /\ ~Contains(properties'[o.to_player], prop)

\* No balance, no owner and no property list has changed.
NothingMoved ==
  /\ balance' = balance
  /\ owner' = owner
  /\ properties' = properties

\* A party of the offer has less money than it owes.
LacksMoney(o) ==
  \/ balance[o.from_player] < o.money_from
  \/ balance[o.to_player] < o.money_to

\* C3: TradeManager.accept either succeeds with every money leg and every
\* property leg of the offer applied, or fails with no balance, owner or
\* property list changed; it fails whenever a party lacks the money it
\* owes when accept is called.
C3_AcceptAtomic ==
  [][\A o \in Offers :
       /\ Accept(o) =>
            /\ IF ret'.ok THEN Settled(o) ELSE NothingMoved
            /\ LacksMoney(o) => ~ret'.ok
       /\ AcceptNotPending(o) => ~ret'.ok /\ NothingMoved]_vars

\* accept has refused a pending offer whose first money leg could be paid
\* and whose second could not: the receiver was debited after submit.
C3_Witness ==
  /\ ret.of = "accept"
  /\ ~ret.ok
  /\ \E i \in DOMAIN pending_offers :
       LET o == pending_offers[i]
       IN  /\ o.money_from > 0
           /\ balance[o.from_player] >= o.money_from
           /\ o.money_to > 0
           /\ balance[o.to_player] < o.money_to

\* --------------------------------------------------------- bankruptcy

\* C4: a player who landed on another player's property and could not pay
\* the rent is bankrupt: flagged, with balance 0, owning nothing.
C4_UnpaidRentBankrupts ==
  effect = "rent_unpaid" =>
    LET p == get_current_player
    IN  /\ bankrupt[p]
        /\ balance[p] = 0
        /\ properties[p] = <<>>
        /\ \A c \in PropIds : owner[c] # p

\* C8: the player whose turn starts is not bankrupt, neither flagged nor
\* having failed a rent or a tax before.
C8_BankruptNeverPlays ==
  [][StartTurn =>
       /\ ~bankrupt[get_current_player]
       /\ get_current_player \notin defaulted]_vars

\* C9: while at most one player of the session is not bankrupt, no turn is
\* played.
C9_GameOverStopsTurns ==
  Cardinality({ p \in Range(players) : ~bankrupt[p] }) <= 1 => pc = "idle"

\* -------------------------------------------------- doubles and jail

\* The index of the board's jail cell.
JailIndex == CHOOSE i \in 0..(BoardSize - 1) : get_cell(i).type = "jail"

\* C5: the turn in which a player rolls the third double in a row ends
\* with the player in jail, on the jail cell.
C5_ThreeDoublesJail ==
  [][(/\ EndTurn
      /\ dice_result.is_double
      /\ doubles_run[get_current_player] >= DoublesLimit) =>
       /\ in_jail'[get_current_player]
       /\ position'[get_current_player] = JailIndex]_vars

\* C6: the turn of a double that does not send to jail leaves the current
\* player in place; every other turn passes to the next player.
C6_DoubleKeepsTurn ==
  [][EndTurn =>
       IF dice_result.is_double /\ double_roll_count < DoublesLimit
         THEN current_player_index' = current_player_index
         ELSE current_player_index' = (current_player_index + 1) % Len(players)]_vars

\* C7: the start of a jailed player's turn lowers the jail counter by one,
\* and when the counter reaches zero the player is released and the turn
\* goes straight to its end.
C7_ReleaseWithoutRoll ==
  [][(StartTurn /\ in_jail[get_current_player]) =>
       LET p == get_current_player
       IN  /\ jail_turns_left'[p] = jail_turns_left[p] - 1
           /\ jail_turns_left'[p] <= 0 => (~in_jail'[p] /\ pc' = "end_turn")]_vars

\* ------------------------------------------------------- the purchases

\* What C10 says of one purchase of prop by p, given the state the step
\* starts in and whether the step reported success.
PurchasePost(p, prop, success) ==
  IF owner[prop] = None /\ balance[p] >= PropertyData[prop].price
    THEN /\ success
         /\ balance'[p] = balance[p] - PropertyData[prop].price
         /\ owner'[prop] = p
         /\ Contains(properties'[p], prop)
    ELSE /\ ~success
         /\ balance' = balance
         /\ owner' = owner
         /\ properties' = properties

\* C10: a purchase of an unowned property by a player who can pay the
\* price takes exactly the price, makes the buyer the owner and lists the
\* property with the buyer; a purchase of an owned property, or by a
\* player who cannot pay, fails and changes no balance and no ownership.
\* The purchases are the calls of Bank.purchase_property and of
\* Player.buy_property, and the landing on an unowned property in a turn.
C10_Purchase ==
  [][/\ \A p \in Range(players), prop \in BankProps :
          (PurchaseProperty(p, prop) \/ BuyProperty(p, prop))
            => PurchasePost(p, prop, ret'.ok)
     /\ (/\ ApplyCellEffects
         /\ get_cell(cell).type = "property"
         /\ owner[get_cell(cell).id] = None)
          => PurchasePost(get_current_player, get_cell(cell).id,
                          effect' = "purchased")]_vars

\* A player with 1500 has bought the property priced 60 and has 1440, and
\* a purchase of an owned property has been refused.
C10_Witness ==
  /\ ret.of = "purchase_property"
  /\ ~ret.ok
  /\ \E p \in Range(players) :
       /\ balance[p] = 1440
       /\ owner["prop2"] = p
       /\ properties[p] = <<"prop2">>

\* ---------------------------------------------------------- the bids

\* The highest amount of a sequence of bids that is not empty.
HighestBid(bids) == Max({ bids[i][2] : i \in DOMAIN bids })

\* The auction is active, p takes part in it and can pay amount, and
\* amount is above every bid placed.
BidAllowed(p, amount) ==
  /\ auction.is_active
  /\ Contains(auction.participants, p)
  /\ balance[p] >= amount
  /\ auction.bids = <<>> \/ amount > HighestBid(auction.bids)

\* C11: place_bid succeeds exactly when the auction is active, the player
\* takes part in it, the player's balance is at least the amount and the
\* amount is above the highest bid (a first bid has no floor); a bid that
\* succeeds is appended, a rejected bid leaves the auction as it was.
C11_PlaceBid ==
  [][\A p \in Range(players), amount \in BidAmounts :
       PlaceBid(p, amount) =>
         /\ ret'.ok = BidAllowed(p, amount)
         /\ ret'.ok => auction' = [auction EXCEPT !.bids = Append(@, <<p, amount>>)]
         /\ ~ret'.ok => auction' = auction]_vars

\* Two players have bid one above the other and a third bid was rejected.
C11_Witness ==
  /\ auction.is_active
  /\ Len(auction.bids) = 2
  /\ auction.bids[1][1] # auction.bids[2][1]
  /\ ret.of = "place_bid"
  /\ ~ret.ok

\* C12: close leaves the auction inactive and returns the bidder and the
\* amount of the highest bid, or nothing when no bid was placed, and then
\* no property changes owner; place_bid on an inactive auction is
\* rejected.
C12_Close ==
  [][/\ (Close \/ CloseAuction) =>
          /\ ~auction'.is_active
          /\ IF auction.bids = <<>>
               THEN ret'.result.is_none /\ owner' = owner
               ELSE /\ ~ret'.result.is_none
                    /\ ret'.result.amount = HighestBid(auction.bids)
                    /\ <<ret'.result.winner, ret'.result.amount>> \in Range(auction.bids)
                    /\ ret'.result.property = auction.property
     /\ \A p \in Range(players), amount \in BidAmounts :
          (~auction.is_active /\ PlaceBid(p, amount)) =>
            ~ret'.ok /\ auction' = auction]_vars

\* An auction with the bids 100 and 120 of two players was closed, and
\* close returned the second bidder at 120.
C12_Witness ==
  /\ ret.of = "close"
  /\ ~auction.is_active
  /\ Len(auction.bids) = 2
  /\ auction.bids[1][1] # auction.bids[2][1]
  /\ ~ret.result.is_none
  /\ ret.result.winner = auction.bids[2][1]
  /\ ret.result.amount = 120

\* --------------------------------------------------------- the offers

\* Neither side of the offer gives money or a property.
MovesNoValue(o) ==
  /\ o.money_from <= 0 /\ o.properties_from = <<>>
  /\ o.money_to <= 0 /\ o.properties_to = <<>>

\* A property of the list is not owned by the side that offers it, or has
\* buildings.
BadProperty(props, side) ==
  \E prop \in Range(props) : owner[prop] # side \/ build_level[prop] > 0

Unacceptable(o) ==
  \/ MovesNoValue(o)
  \/ LacksMoney(o)
  \/ BadProperty(o.properties_from, o.from_player)
  \/ BadProperty(o.properties_to, o.to_player)

\* C13: validate rejects, with a reason, every offer that moves no value,
\* in which a side lacks the money it offers, or in which an offered
\* property is not owned by the side offering it or has build level
\* above 0; it accepts every other offer.
C13_Validate ==
  \A o \in Offers :
    LET v == validate(World, o)
    IN  /\ v.ok = ~Unacceptable(o)
        /\ v.ok = (v.reason = "Valid")

\* submit has refused an offer whose only fault is a building on the
\* property its owner offers.
C13_Witness ==
  /\ ret.of = "submit"
  /\ ~ret.ok
  /\ \E o \in Offers :
       /\ ~MovesNoValue(o)
       /\ ~LacksMoney(o)
       /\ o.properties_from # <<>>
       /\ \A prop \in Range(o.properties_from) :
            owner[prop] = o.from_player /\ build_level[prop] > 0
       /\ ~BadProperty(o.properties_to, o.to_player)
       /\ validate(World, o).reason = "has buildings"

\* C14: submit appends the offer to the pending offers exactly when the
\* offer is acceptable to validate, and otherwise leaves the pending
\* offers as they were; in both cases no balance and no ownership
\* changes.
C14_Submit ==
  [][\A o \in Offers :
       Submit(o) =>
         /\ ret'.ok = ~Unacceptable(o)
         /\ pending_offers' = IF Unacceptable(o) THEN pending_offers
                                                ELSE Append(pending_offers, o)
         /\ NothingMoved /\ build_level' = build_level]_vars

\* submit has refused an offer of a property the sender does not own
\* while an earlier offer stays pending.
C14_Witness ==
  /\ ret.of = "submit"
  /\ ~ret.ok
  /\ pending_offers # <<>>
  /\ \E o \in Offers :
       /\ o.properties_from # <<>>
       /\ \A prop \in Range(o.properties_from) : owner[prop] # o.from_player
       /\ ~Contains(pending_offers, o)

\* ------------------------------------------------- debits and the log

\* C15: debit returns false and changes no balance and no log entry when
\* the balance is below the amount; otherwise it returns true, lowers the
\* player's balance by exactly the amount and leaves every other balance
\* as it was.
C15_Debit ==
  [][\A p \in Range(players), amount \in LedgerAmounts :
       Debit(p, amount) =>
         IF balance[p] < amount
           THEN /\ ~ret'.ok
                /\ balance' = balance
                /\ transaction_log' = transaction_log
                /\ UNCHANGED <<cellVars, properties, reserveVars>>
           ELSE /\ ret'.ok
                /\ balance' = [balance EXCEPT ![p] = @ - amount]]_vars

\* A debit the player could pay was followed by one the same player could
\* not.
C15_Witness ==
  /\ ret.of = "debit"
  /\ ~ret.ok
  /\ \E i \in DOMAIN transaction_log :
       /\ transaction_log[i].type = "debit"
       /\ transaction_log[i].amount > 0
       /\ balance[transaction_log[i].player] = StartBalance - transaction_log[i].amount

\* s is t with entries added at its end.
IsPrefix(t, s) == Len(t) <= Len(s) /\ SubSeq(s, 1, Len(t)) = t

\* C16: a debit, credit or transfer of either ledger that succeeds adds
\* exactly one entry at the end of its log, one that fails adds none, and
\* the entries already in a log stay as they are.
C16_LogAppendOnly ==
  [][/\ IsPrefix(transaction_log, transaction_log')
     /\ IsPrefix(transactions, transactions')
     /\ (Len(transaction_log') - Len(transaction_log))
          + (Len(transactions') - Len(transactions))
        = IF ret'.ok THEN 1 ELSE 0
     /\ ret'.of = "bank_transfer" => transaction_log' = transaction_log
     /\ ret'.of # "bank_transfer" => transactions' = transactions]_vars

\* A transfer was logged and the call after it, refused, added no entry.
C16_Witness ==
  /\ ~ret.ok
  /\ Len(transaction_log) + Len(transactions) = call_count - 1
  /\ call_count >= 2
  /\ \E i \in DOMAIN transaction_log : transaction_log[i].type = "transfer"

\* ------------------------------------------------------- the monopoly

\* The colour groups of the board.
Groups == { PropertyData[c].color_group : c \in PropIds }

\* Every property of the group is owned by p.
OwnsAll(p, group) == \A c \in get_group_cells(group) : owner[c] = p

\* C17: the monopoly test of a player and a group, and that of a property
\* for its owner, is true exactly when every property of the group is
\* owned by that player; once a property of a group fully owned by a
\* player has another owner, the test is false for that player.
C17_Monopoly ==
  /\ [](\A p \in Range(players), group \in Groups :
          check_monopoly(World, p, group) = OwnsAll(p, group))
  /\ [](\A prop \in PropIds :
          has_monopoly(World, prop) =
            (\E p \in Range(players) :
               owner[prop] = p /\ OwnsAll(p, PropertyData[prop].color_group)))
  /\ [][\A p \in Range(players), group \in Groups :
          (OwnsAll(p, group) /\ \E c \in get_group_cells(group) : owner'[c] # p)
            => /\ ~check_monopoly(World', p, group)
               /\ \A c \in get_group_cells(group) :
                    owner'[c] = p => ~has_monopoly(World', c)]_vars

\* A player who owned both brown properties has given one away and keeps
\* the other.
C17_Witness ==
  /\ ret.of = "accept"
  /\ ret.ok
  /\ owner["prop1"] # None
  /\ owner["prop2"] # None
  /\ owner["prop1"] # owner["prop2"]
  /\ ~has_monopoly(World, "prop1")
  /\ \E i \in DOMAIN transaction_log :
       /\ transaction_log[i].type = "debit"
       /\ transaction_log[i].player = owner["prop1"]
       /\ transaction_log[i].reason = <<"Purchase", "prop2">>

\* ------------------------------------------------------ even building

\* The properties of the colour group of prop.
GroupOf(prop) == get_group_cells(PropertyData[prop].color_group)

\* One player owns every property of the group of prop.
Monopolised(prop) ==
  \E p \in Range(players) : \A c \in GroupOf(prop) : owner[c] = p

ScheduledRent(prop) ==
  IF is_mortgaged[prop] \/ owner[prop] = None THEN 0
  ELSE rent_table(prop)[build_level[prop]]

\* The rent of PropertyCell.calculate_rent is 0 for a mortgaged or unowned
\* property at every build level, and otherwise the entry of the schedule
\* for the build level.
CellRentScheduled ==
  \A prop \in PropIds :
    /\ calculate_rent(World, prop) = ScheduledRent(prop)
    /\ \A l \in 0..5 :
         LET w == [World EXCEPT !.build_level[prop] = l]
         IN  calculate_rent(w, prop) =
               IF is_mortgaged[prop] \/ owner[prop] = None THEN 0
               ELSE rent_table(prop)[l]

\* The step moves the scheduled rent of prop from the tenant to the owner
\* of prop, or nothing when the two are the same player.
RentPaid(tenant, prop) ==
  LET rent == IF owner[prop] = tenant THEN 0 ELSE ScheduledRent(prop)
  IN  ret'.ok => /\ balance'[tenant] = balance[tenant] - rent
                 /\ owner[prop] # None /\ owner[prop] # tenant =>
                      balance'[owner[prop]] = balance[owner[prop]] + rent

\* PropertyCell.calculate_rent is the scheduled rent in every state, and
\* Bank.pay_rent moves it.
CellRent ==
  /\ []CellRentScheduled
  /\ [][\A tenant \in Range(players), prop \in EstateProps :
          PayRent(tenant, prop) => RentPaid(tenant, prop)]_vars

\* Player.pay_rent moves the scheduled rent, which it takes from
\* Property.calculate_rent.
PropertyRentScheduled ==
  [][\A tenant \in Range(players), prop \in PropertyProps :
       PlayerPayRent(tenant, prop) => RentPaid(tenant, prop)]_vars

\* C18: the rent of a property is 0 whenever the property is mortgaged or
\* unowned, for every build level, and otherwise the entry of the rent
\* schedule for its build level: for PropertyCell.calculate_rent in every
\* state, and for the rent that Bank.pay_rent (PropertyCell.calculate_rent)
\* and Player.pay_rent (Property.calculate_rent) take from a tenant.
C18_RentSchedule == CellRent /\ PropertyRentScheduled

\* ------------------------------------------------------- the mortgage

\* What C20 says of mortgaging prop for player p.
MortgagePost(p, prop) ==
  IF owner[prop] = p /\ ~is_mortgaged[prop] /\ build_level[prop] = 0
    THEN /\ ret'.ok
         /\ is_mortgaged' = [is_mortgaged EXCEPT ![prop] = TRUE]
         /\ balance' = [balance EXCEPT ![p] = @ + PropertyData[prop].price \div 2]
         /\ 2 * (balance'[p] - balance[p]) = PropertyData[prop].price
         /\ owner' = owner /\ build_level' = build_level
         /\ properties' = properties
    ELSE /\ ~ret'.ok
         /\ UNCHANGED <<balance, properties, cellVars, transaction_log>>

\* Every call of Bank.mortgage_property does what C20 says.
BankMortgages ==
  [][\A p \in Range(players), prop \in EstateProps :
       MortgageProperty(p, prop) => MortgagePost(p, prop)]_vars

\* Every call of Property.mortgage does what C20 says, for the owner of
\* the property as the caller.
PropertyMortgages ==
  [][\A prop \in PropertyProps :
       PropertyMortgage(prop) =>
         IF owner[prop] = None
           THEN ~ret'.ok /\ UNCHANGED <<balance, properties, cellVars>>
           ELSE MortgagePost(owner[prop], prop)]_vars

\* C20: mortgaging succeeds only for a property owned by the caller,
\* unmortgaged and at build level 0; on success the owner is credited
\* exactly half the price and the mortgaged flag is set; otherwise
\* nothing changes; for Bank.mortgage_property and for Property.mortgage.
C20_Mortgage == BankMortgages /\ PropertyMortgages

\* ----------------------------------------------------- the redemption

\* 110% of what mortgaging the property paid out.
RedeemCost(prop) == ((PropertyData[prop].price \div 2) * 110) \div 100

\* C21: redeeming a mortgaged property of the caller costs 110% of the
\* mortgage value, which is 55% of the price: a caller who has that much
\* is debited it and the mortgaged flag is cleared; a caller who has less
\* gets a failure and keeps balance and flag.
C21_Redeem ==
  [][\A p \in Range(players), prop \in EstateProps :
       (RedeemMortgage(p, prop) /\ owner[prop] = p /\ is_mortgaged[prop]) =>
         /\ 100 * RedeemCost(prop) = 55 * PropertyData[prop].price
         /\ IF balance[p] >= RedeemCost(prop)
              THEN /\ ret'.ok
                   /\ balance' = [balance EXCEPT ![p] = @ - RedeemCost(prop)]
                   /\ is_mortgaged' = [is_mortgaged EXCEPT ![prop] = FALSE]
              ELSE /\ ~ret'.ok
                   /\ UNCHANGED <<balance, properties, cellVars, transaction_log>>]_vars

\* The owner of a mortgaged property, left with less than the cost, was
\* refused its redemption.
C21_Witness ==
  /\ ret.of = "redeem_mortgage"
  /\ ~ret.ok
  /\ \E prop \in EstateProps :
       /\ owner[prop] # None
       /\ is_mortgaged[prop]
       /\ balance[owner[prop]] < RedeemCost(prop)
       /\ \A c \in EstateProps \ {prop} : owner[c] = None

\* ---------------------------------------------------------- the salary

\* The sums two dice can show.
DiceSums == { d1 + d2 : d1 \in DieFaces, d2 \in DieFaces }

\* board.py Board.__init__: the default size.
PlayerBoardSize == 40

Positions == 0..(BoardSize - 1)

\* Step counts: backwards by up to a lap, forwards by up to two laps.
StepCounts == (0 - BoardSize)..(2 * BoardSize)

\* C23: next_position composes, next_position(next_position(p, s1), s2)
\* = next_position(p, s1 + s2), and its result is a position of the
\* board that get_cell maps to a cell: for every position and all step
\* counts, and for every move of a turn followed by any dice sum.
C23_AdvanceComposes ==
  /\ \A p \in Positions, s1 \in StepCounts, s2 \in StepCounts :
       /\ next_position(next_position(p, s1), s2) = next_position(p, s1 + s2)
       /\ next_position(p, s1) \in Positions
       /\ get_cell(next_position(p, s1)) \in Range(Cells)
  /\ [][MovePlayer =>
          LET p == get_current_player
          IN  /\ position'[p] = next_position(position[p], dice_result.sum)
              /\ position'[p] \in Positions
              /\ \A s2 \in DiceSums :
                   next_position(position'[p], s2) =
                     next_position(position[p], dice_result.sum + s2)]_vars

\* The only player has moved twice, by 15 steps in all, and stands on
\* position 1.
C23_Witness ==
  /\ Len(players) = 1
  /\ roll_count = 2
  /\ pc = "apply_cell_effects"
  /\ position[get_current_player] = 1
  /\ ~in_jail[get_current_player]

\* -------------------------------------------------- the two records

\* The owner field of every property and the property lists of the
\* players say the same.
OwnershipAgrees ==
  \A prop \in PropIds, p \in Range(players) :
    (owner[prop] = p) = Contains(properties[p], prop)

\* The two records agree after every accepted trade.
TradesKeepOwnership ==
  [][(\E o \in EstateOffers : Accept(o)) => OwnershipAgrees']_vars

\* The two records agree after every resolved auction.
AuctionsKeepOwnership == [][CloseAuction => OwnershipAgrees']_vars

\* C24: in every reachable state a property is in the property list of
\* player P exactly when its owner field is P, so that no property is in
\* the lists of two players.
C24_OwnershipAgrees ==
  /\ OwnershipAgrees
  /\ \A prop \in PropIds :
       Cardinality({ p \in Range(players) : Contains(properties[p], prop) }) <= 1

\* ------------------------------------------------------ the unit steps

\* The step changes the build level of prop.
LevelChanges(prop) == build_level'[prop] # build_level[prop]

\* Every rise of a build level is by one, on a property whose group one
\* player owns.
RaisesNeedMonopoly ==
  [][\A prop \in PropIds :
       build_level'[prop] > build_level[prop] =>
         build_level'[prop] = build_level[prop] + 1 /\ Monopolised(prop)]_vars

\* C25: a step that changes the build level of a property changes it by
\* one, and is taken only when one player owns every property of the
\* colour group; for pay_build_cost and for refund_building.
C25_UnitStepsUnderMonopoly ==
  [][\A prop \in PropIds :
       LevelChanges(prop) =>
         /\ build_level'[prop] \in {build_level[prop] - 1, build_level[prop] + 1}
         /\ Monopolised(prop)]_vars

\* C26: in every state reached by purchases, builds, sales of buildings
\* and trades, the build levels of two properties of one colour group
\* differ by at most one.
C26_EvenBuilding ==
  \A prop \in PropIds : \A c \in GroupOf(prop) :
    /\ build_level[prop] - build_level[c] <= 1
    /\ build_level[c] - build_level[prop] <= 1

\* A building has been sold on the brown group, and after the last sale
\* or refused sale both brown properties stand at level one.
C26_Witness ==
  /\ ret.of = "refund_building"
  /\ build_level["prop1"] = 1
  /\ build_level["prop2"] = 1
  /\ \E i \in DOMAIN transaction_log :
       /\ transaction_log[i].type = "credit"
       /\ transaction_log[i].reason \in
            {<<"Sell building on", "prop1">>, <<"Sell building on", "prop2">>}

\* ---------------------------------------------- the mortgaged property

\* A mortgaged property has no building and its rent is zero.
MortgagedIsBare ==
  \A prop \in PropIds :
    is_mortgaged[prop] => build_level[prop] = 0 /\ calculate_rent(World, prop) = 0

\* No step changes the build level of a property that is mortgaged.
MortgagedLevelKept ==
  [][\A prop \in PropIds : is_mortgaged[prop] => ~LevelChanges(prop)]_vars

\* A call of pay_rent on a mortgaged property moves no money.
MortgagedRentFree ==
  [][\A p \in Range(players), prop \in EstateProps :
       is_mortgaged[prop] /\ PayRent(p, prop) => ret'.ok /\ balance' = balance]_vars

\* C27: a mortgaged property yields no rent, no step raises or lowers its
\* build level while it is mortgaged, and in every state a mortgaged
\* property has build level 0.
C27_Mortgaged == []MortgagedIsBare /\ MortgagedLevelKept /\ MortgagedRentFree

\* A build was refused to the owner of the orange property, who can pay
\* for it, because the property is mortgaged.
C27_Witness ==
  /\ ret.of = "pay_build_cost"
  /\ ~ret.ok
  /\ owner["prop9"] # None
  /\ is_mortgaged["prop9"]
  /\ owner["prop1"] = None
  /\ owner["prop2"] = None
  /\ has_monopoly(World, "prop9")
  /\ balance[owner["prop9"]] >= PropertyData["prop9"].house_cost

\* ------------------------------------------------------------ the jail

\* The player sent to jail by the step has the jailed flag and the counter
\* of jail turns set.
JailedFlagged ==
  [][ApplyCellEffects /\ effect' = "go_to_jail" =>
       /\ in_jail'[get_current_player]
       /\ jail_turns_left'[get_current_player] = JailTurns]_vars

\* C28: a player who lands on the go-to-jail cell is, after the effects of
\* the cell, on the jail cell of the board, with the jailed flag set and
\* the counter of jail turns set.
C28_SentToJailCell ==
  [][ApplyCellEffects /\ effect' = "go_to_jail" =>
       /\ position'[get_current_player] = JailIndex
       /\ get_cell(position'[get_current_player]).type = "jail"
       /\ in_jail'[get_current_player]
       /\ jail_turns_left'[get_current_player] = JailTurns]_vars

\* ------------------------------------------------------------- the tax

\* The step resolves the landing of the current player on a tax cell.
LandsOnTax == ApplyCellEffects /\ get_cell(cell).type = "tax"

\* A player whose balance covers the tax of the cell landed on pays
\* exactly that amount.
TaxDebited ==
  [][LandsOnTax =>
       LET p == get_current_player
           tax == TaxAmount[get_cell(cell).id]
       IN  balance[p] >= tax =>
             /\ effect' = "tax_paid"
             /\ balance' = [balance EXCEPT ![p] = @ - tax]]_vars

\* C29: landing on a tax cell debits exactly the tax of the cell from a
\* player whose balance covers it; a player whose balance does not cover
\* it is bankrupt after the landing: flagged, with balance 0, owning
\* nothing.
C29_TaxPaidOrBankrupt ==
  [][LandsOnTax =>
       LET p == get_current_player
           tax == TaxAmount[get_cell(cell).id]
       IN  IF balance[p] >= tax
             THEN balance' = [balance EXCEPT ![p] = @ - tax]
             ELSE /\ bankrupt'[p]
                  /\ balance'[p] = 0
                  /\ properties'[p] = <<>>
                  /\ \A c \in PropIds : owner'[c] # p]_vars

\* ------------------------------------------------- the declined purchase

\* The step resolves a landing on an unowned property without a purchase.
PurchaseNotMade ==
  /\ ApplyCellEffects
  /\ get_cell(cell).type = "property"
  /\ owner[get_cell(cell).id] = None
  /\ owner'[get_cell(cell).id] = None

\* C30: when a player lands on an unowned property and does not buy it,
\* an auction of that property is open after the landing, among the
\* players who are not bankrupt, the one who landed excluded.
C30_AuctionOpened ==
  [][PurchaseNotMade =>
       /\ auction'.is_active
       /\ auction'.property = get_cell(cell).id
       /\ Range(auction'.participants) =
            { q \in Range(players) : ~bankrupt[q] } \ {get_current_player}]_vars

\* ------------------------------------------------ the steps of a turn

\* The steps of a turn in the order play_turn takes them.
TurnSteps ==
  <<"roll_dice", "move_player", "apply_cell_effects", "offer_optional_actions", "end_turn">>

\* The step of the turn that follows the step at.
StepAfter(at) ==
  IF at = "end_turn" THEN "idle"
  ELSE TurnSteps[(CHOOSE i \in DOMAIN TurnSteps : TurnSteps[i] = at) + 1]

\* From the roll on, every step of a turn is followed by the next one of
\* the order; only the roll counts a roll, only the move changes the
\* position of a player who is not sent to jail, and the move is by the sum
\* of the dice rolled.
StepsInOrder ==
  [][pc # "idle" =>
       LET p == get_current_player
       IN  /\ pc' = StepAfter(pc)
           /\ roll_count' = (IF pc = "roll_dice" THEN roll_count + 1 ELSE roll_count)
           /\ pc = "roll_dice" => dice_result' # NoDice /\ position' = position
           /\ pc = "move_player" =>
                /\ dice_result' = dice_result
                /\ position'[p] = next_position(position[p], dice_result.sum)
           /\ pc = "apply_cell_effects" =>
                /\ get_cell(cell) = get_cell(position[p])
                /\ effect' # "none"
                /\ effect' # "go_to_jail" => position' = position
           /\ pc = "offer_optional_actions" => position' = position]_vars

\* The start of a turn leads a player who is not jailed after it to the
\* roll, and a player who is still jailed to the end of the turn, with no
\* dice rolled, no move and no cell resolved.
JailedSkips ==
  [][StartTurn =>
       LET p == get_current_player
       IN  IF in_jail'[p]
             THEN /\ pc' = "end_turn"
                  /\ dice_result' = NoDice /\ cell' = NoCell /\ effect' = "none"
                  /\ position' = position
                  /\ roll_count' = roll_count
             ELSE pc' = "roll_dice"]_vars

\* A turn is at its end without dice only for a jailed player; at every
\* other step of a turn the current player is not jailed or was sent to
\* jail by the cell just resolved.
JailedNeverMidTurn ==
  LET p == get_current_player
  IN  /\ pc \in {"roll_dice", "move_player", "apply_cell_effects"} => ~in_jail[p]
      /\ pc = "end_turn" /\ dice_result = NoDice => in_jail[p]
      /\ pc = "end_turn" /\ dice_result # NoDice => cell # NoCell /\ effect # "none"

\* C31: the turn of a player who is not jailed takes the steps roll, move,
\* resolve cell, offer optional actions, end of turn, once each and in
\* that order; the turn of a player still jailed after the start of the
\* turn goes straight to its end with no roll, no move and no cell
\* resolved.
C31_TurnOrder == StepsInOrder /\ JailedSkips /\ []JailedNeverMidTurn

\* A jailed player's turn is at its end with two jail turns left, no dice
\* rolled and no cell resolved, after two rolls of earlier turns.
C31_Witness ==
  /\ pc = "end_turn"
  /\ in_jail[get_current_player]
  /\ jail_turns_left[get_current_player] = JailTurns - 1
  /\ dice_result = NoDice
  /\ cell = NoCell
  /\ roll_count = 2

\* ------------------------------------------------ the optional actions

\* The list of optional actions of the current player names, to build,
\* the properties of the player's list that are not mortgaged, whose group
\* one player owns and that no property of the group is below; to
\* mortgage, the properties of the list that are not mortgaged; and the
\* trade.
ListsWhatIsAllowed ==
  LET p == get_current_player
      actions == offer_optional_actions(World, p)
  IN  /\ actions.trade
      /\ \A prop \in PropIds :
           /\ Contains(actions.build, prop) =
                /\ Contains(properties[p], prop)
                /\ ~is_mortgaged[prop]
                /\ Monopolised(prop)
                /\ \A c \in GroupOf(prop) : build_level[prop] <= build_level[c]
           /\ Contains(actions.mortgage, prop) =
                (Contains(properties[p], prop) /\ ~is_mortgaged[prop])

\* C32: the offer of optional actions lists the builds, mortgages and the
\* trade the player may make, and changes no balance, no owner, no list of
\* properties, no mortgage flag, no build level, no pending offer and no
\* entry of the log.
C32_OfferOnlyLists ==
  /\ [](pc = "offer_optional_actions" => ListsWhatIsAllowed)
  /\ [][OfferOptionalActions =>
          UNCHANGED <<balance, owner, properties, is_mortgaged, build_level,
                      pending_offers, transaction_log, position>>]_vars

\* The optional actions were offered to the player who just bought the
\* orange property: the list named it to build on and to mortgage, and the
\* player still has the balance left by the purchase and no building.
C32_Witness ==
  /\ pc = "end_turn"
  /\ effect = "purchased"
  /\ LET p == get_current_player
     IN  /\ properties[p] = <<"prop9">>
         /\ offer_optional_actions(World, p).build = <<"prop9">>
         /\ offer_optional_actions(World, p).mortgage = <<"prop9">>
         /\ build_level["prop9"] = 0
         /\ balance[p] = StartBalance - PropertyData["prop9"].price

\* --------------------------------------------------- the order of bids

\* Every bid of the sequence is above the one before it.
StrictlyIncreasing(bids) ==
  \A i \in DOMAIN bids : \A j \in DOMAIN bids : i < j => bids[i][2] < bids[j][2]

\* Every start of an auction leaves it with no bid.
StartsEmpty ==
  [][(\E prop \in AuctionProps, participants \in ParticipantLists :
        StartAuction(prop, participants)) => auction'.bids = <<>>]_vars

\* C33: in every state the amounts of the bids of the auction rise
\* strictly along the sequence, so the last bid is the highest, and every
\* start of an auction leaves an empty sequence.
C33_BidsIncrease ==
  /\ [](/\ StrictlyIncreasing(auction.bids)
        /\ auction.bids # <<>> =>
             auction.bids[Len(auction.bids)][2] = HighestBid(auction.bids))
  /\ StartsEmpty

\* A second bid has just been accepted above the first.
C33_Witness ==
  /\ ret.of = "place_bid"
  /\ ret.ok
  /\ Len(auction.bids) = 2
  /\ auction.bids[1][2] < auction.bids[2][2]

\* -------------------------------------------------- the offer returned

\* What C34 says of the offer c returned for the offer o and the
\* adjustments: the parties of o swapped, and each leg the adjustment
\* given for it or else the opposite leg of o.
Mirrored(c, o, adjustments) ==
  /\ c.from_player = o.to_player
  /\ c.to_player = o.from_player
  /\ c.money_from =
       (IF "money_from" \in DOMAIN adjustments THEN adjustments.money_from ELSE o.money_to)
  /\ c.money_to =
       (IF "money_to" \in DOMAIN adjustments THEN adjustments.money_to ELSE o.money_from)
  /\ c.properties_from =
       (IF "properties_from" \in DOMAIN adjustments
          THEN adjustments.properties_from ELSE o.properties_to)
  /\ c.properties_to =
       (IF "properties_to" \in DOMAIN adjustments
          THEN adjustments.properties_to ELSE o.properties_from)

\* C34: counter returns an offer with the parties of the original swapped
\* and its legs mirrored unless adjusted, changes no pending offer, no
\* balance and no ownership, and the counter without adjustments of a
\* counter without adjustments is the original offer.
C34_Counter ==
  [][\A o \in OffersAtHand, adjustments \in Adjustments :
       Counter(o, adjustments) =>
         /\ Mirrored(ret'.value, o, adjustments)
         /\ UNCHANGED <<pending_offers, balance, owner, properties,
                        is_mortgaged, build_level, transaction_log>>
         /\ (/\ ret.of = "counter"
             /\ ret.adjustments = NoAdjustments
             /\ o = ret.value
             /\ adjustments = NoAdjustments) => ret'.value = ret.offer]_vars

\* With an offer pending, the counter of an offer of a property for money
\* was countered in turn, both times without adjustments: the offer
\* returned is the first one, of the property for the money.
C34_Witness ==
  /\ ret.of = "counter"
  /\ pending_offers # <<>>
  /\ ret.adjustments = NoAdjustments
  /\ ret.offer \notin CounterOffers
  /\ ret.offer.money_from = 1495
  /\ ret.offer.properties_to = <<"prop9">>
  /\ ret.value \in CounterOffers
  /\ ret.value.from_player = ret.offer.to_player
  /\ ret.value.properties_from = <<"prop9">>
  /\ ret.value.money_to = 1495

\* ------------------------------------------------- the price of a level

\* What C35 says of one call of pay_build_cost by p on prop that reported
\* success or failure: the cost is taken from p and the level is one
\* higher, or nothing has changed.
BuildPost(p, prop, success) ==
  IF success
    THEN /\ balance' = [balance EXCEPT ![p] = @ - PropertyData[prop].house_cost]
         /\ build_level' = [build_level EXCEPT ![prop] = @ + 1]
    ELSE balance' = balance /\ build_level' = build_level

\* Below level 5, a call of pay_build_cost takes the cost and adds a level,
\* or changes nothing.
BuildPaidBelowHotel ==
  [][\A p \in Range(players), prop \in HotelProps :
       PayBuildCost(p, prop) /\ build_level[prop] < 5 => BuildPost(p, prop, ret'.ok)]_vars

\* Every build level is within 0..5.
LevelsInRange == \A prop \in PropIds : build_level[prop] \in 0..5

\* C35: a call of pay_build_cost that succeeds takes exactly the cost of
\* a house (or hotel) and adds exactly one level; one that fails changes
\* no balance and no level; every level is within 0..5.
C35_BuildPaid ==
  /\ []LevelsInRange
  /\ [][\A p \in Range(players), prop \in HotelProps :
          PayBuildCost(p, prop) => BuildPost(p, prop, ret'.ok)]_vars

\* ------------------------------------------------ the offer settled once

\* An offer of the model is one TradeOffer object: the pending list holds
\* it once for every submit of it.

\* accept of a pending offer that succeeds takes one entry of the offer out
\* of the pending list, and one that fails leaves the list as it was;
\* decline takes one entry out and changes no balance and no ownership;
\* accept of an offer that is not pending fails and changes nothing.
OneEntryLeaves ==
  [][\A o \in Offers :
       /\ Accept(o) =>
            pending_offers' =
              (IF ret'.ok THEN RemoveFirst(pending_offers, o) ELSE pending_offers)
       /\ Decline(o) =>
            /\ pending_offers' = RemoveFirst(pending_offers, o)
            /\ UNCHANGED <<balance, owner, properties, transaction_log>>
       /\ AcceptNotPending(o) =>
            /\ ~ret'.ok
            /\ UNCHANGED <<pending_offers, balance, owner, properties, transaction_log>>]_vars

\* C36: an offer is settled at most once: an accept that succeeds leaves
\* the offer out of the pending list, so that no later accept of it can
\* succeed; a decline leaves it out of the list and changes no balance and
\* no ownership; an accept that fails leaves the list as it was; accept of
\* an offer that is not pending fails and changes nothing.
C36_SettledOnce ==
  [][\A o \in Offers :
       /\ Accept(o) =>
            IF ret'.ok THEN ~Contains(pending_offers', o)
            ELSE pending_offers' = pending_offers
       /\ Decline(o) =>
            /\ ~Contains(pending_offers', o)
            /\ UNCHANGED <<balance, owner, properties, transaction_log>>
       /\ AcceptNotPending(o) =>
            /\ ~ret'.ok
            /\ UNCHANGED <<pending_offers, balance, owner, properties, transaction_log>>]_vars

\* ----------------------------------------------------------- the rotation

\* The index of the current player is an index of the roster.
IndexInRoster == current_player_index \in 0..(Len(players) - 1)

\* The end of a turn, and no other step, moves the index, by one modulo
\* the number of players: to another player when there are several, and
\* among two players to the one who played the turn before.
AdvancesByOne ==
  [][IF EndTurn
       THEN /\ current_player_index' = (current_player_index + 1) % Len(players)
            /\ Len(players) > 1 => get_current_player' # get_current_player
       ELSE current_player_index' = current_player_index]_vars

\* play_turn of a paused session changes nothing, and no turn starts while
\* the session is paused.
PausedTurnIdle ==
  [][/\ PlayTurnPaused =>
          UNCHANGED <<sessionVars, playerVars, cellVars, transaction_log, reserveVars,
                      tradeVars, auction, turnVars, historyVars>>
     /\ is_paused /\ pc = "idle" => pc' = "idle" /\ roll_count' = roll_count]_vars

C38_JailCounter ==
  pc = "idle" =>
    \A p \in Range(players) :
      /\ in_jail[p] = (jail_turns_left[p] > 0)
      /\ jail_turns_left[p] \in 0..JailTurns

\* Between two turns a player is in jail with one jail turn left: two
\* turns were spent there.
C38_Witness ==
  /\ pc = "idle"
  /\ \E p \in Range(players) : in_jail[p] /\ jail_turns_left[p] = 1

\* ------------------------------------------- the auction resolved

\* What C39 says of resolving an auction closed with bids: the last bidder
\* pays the last bid and owns the property, or cannot pay it and nothing
\* changes.
WinnerPaysOrNothing ==
  LET winner == auction.bids[Len(auction.bids)][1]
      amount == auction.bids[Len(auction.bids)][2]
  IN  IF balance[winner] >= amount
        THEN /\ balance' = [balance EXCEPT ![winner] = @ - amount]
             /\ owner' = [owner EXCEPT ![auction.property] = winner]
        ELSE balance' = balance /\ owner' = owner /\ properties' = properties

\* Resolving an auction closed with bids.
ResolvedWithBids ==
  [][CloseAuction /\ auction.bids # <<>> => ret'.ok /\ WinnerPaysOrNothing]_vars

\* C39: resolving a closed auction makes the winner pay exactly the
\* winning bid and own the property, or changes no balance and no owner
\* when the winner cannot pay; resolving an auction closed without bids
\* completes without error and changes no balance and no owner.
C39_Resolve ==
  [][CloseAuction =>
       IF auction.bids = <<>>
         THEN ret'.ok /\ balance' = balance /\ owner' = owner
         ELSE ret'.ok /\ WinnerPaysOrNothing]_vars

\* ------------------------------------------------- the money of the bank

\* The balances of the players of the set, added up.
RECURSIVE SumOfBalances(_)
SumOfBalances(ps) ==
  IF ps = {} THEN 0
  ELSE LET p == CHOOSE q \in ps : TRUE
       IN  balance[p] + SumOfBalances(ps \ {p})

\* The reserve of the bank and the balances of all players together.
TotalMoney == available_money + SumOfBalances(Range(players))

\* A transfer out of the bank of more than its reserve fails and changes
\* nothing.
ReserveCovers ==
  [][\A t \in Endpoints, amount \in ReserveAmounts :
       BankTransfer(TheBank, t, amount) /\ available_money < amount =>
         /\ ~ret'.ok
         /\ UNCHANGED <<balance, available_money, transactions>>]_vars

\* C40: every transfer of bank.py's ledger, successful or failed, between
\* players or with the bank at an end, keeps the sum of the reserve and of
\* all balances as it was at the start, and a transfer out of the bank of
\* more than the reserve fails and changes nothing.
C40_MoneyConserved ==
  /\ [](TotalMoney = BankReserve + Len(players) * StartBalance)
  /\ [][TotalMoney' = TotalMoney]_vars
  /\ ReserveCovers

\* The bank has paid its whole reserve to a player and was then refused a
\* payment of 700.
C40_Witness ==
  /\ available_money = 0
  /\ ret.of = "bank_transfer"
  /\ ~ret.ok
  /\ transactions # <<>>
  /\ transactions[1].from = TheBank
  /\ transactions[1].to # TheBank
  /\ transactions[1].amount = BankReserve
  /\ \E p \in Range(players) : balance[p] = StartBalance + BankReserve

====
